---- MODULE Spec2Model ----
(***************************************************************************)
(* Svelte Radar: route classification, route resolution and route sorting  *)
(* of RoutesProvider (src/providers/routesProvider.ts).                    *)
(*                                                                         *)
(* Strings are sequences of one-character strings, so that startsWith,     *)
(* endsWith, includes, split and the regular expressions of the source are *)
(* computed character by character.  A file-system path is a sequence of   *)
(* entry names below the routes directory; <<>> is the routes directory.   *)
(***************************************************************************)
EXTENDS Naturals, Integers, Sequences, FiniteSets, TLC

(***************************************************************************)
(* Characters and string primitives (JavaScript String methods).           *)
(***************************************************************************)
Digits == {"0", "1", "2", "3", "4", "5", "6", "7", "8", "9"}

LowerLetters ==
    {"a", "b", "c", "d", "e", "f", "g", "h", "i", "j", "k", "l", "m",
     "n", "o", "p", "q", "r", "s", "t", "u", "v", "w", "x", "y", "z"}

UpperLetters ==
    {"A", "B", "C", "D", "E", "F", "G", "H", "I", "J", "K", "L", "M",
     "N", "O", "P", "Q", "R", "S", "T", "U", "V", "W", "X", "Y", "Z"}

Letters == LowerLetters \cup UpperLetters

HexDigits == Digits \cup {"a", "b", "c", "d", "e", "f"}
                    \cup {"A", "B", "C", "D", "E", "F"}

\* s.slice(i) with a 0-based i: the characters after the first i ones
Slice(s, i) == IF i >= Len(s) THEN <<>> ELSE SubSeq(s, i + 1, Len(s))

\* s.startsWith(p)
StartsWith(s, p) == Len(p) <= Len(s) /\ SubSeq(s, 1, Len(p)) = p

\* s.endsWith(p)
EndsWith(s, p) ==
    Len(p) <= Len(s) /\ SubSeq(s, Len(s) - Len(p) + 1, Len(s)) = p

\* s.includes(c) for a one-character c
IncludesChar(s, c) == \E i \in 1..Len(s) : s[i] = c

\* every character of s[from..to] lies in set
AllIn(s, from, to, set) == \A i \in from..to : s[i] \in set

\* the least element of a non-empty set of naturals
Least(S) == CHOOSE x \in S : \A y \in S : x <= y

(***************************************************************************)
(* Segment kinds: the two classifiers of the source.                       *)
(***************************************************************************)
\* RoutesProvider.determineRouteType, used by buildRoutesTree
determineRouteType(entry) ==
    IF StartsWith(entry, <<"(">>) /\ EndsWith(entry, <<")">>) THEN "group"
    ELSE IF StartsWith(entry, <<"[", ".", ".", ".">>) /\ EndsWith(entry, <<"]">>)
        THEN "rest"
    ELSE IF StartsWith(entry, <<"[", "[">>) /\ EndsWith(entry, <<"]", "]">>)
        THEN "optional"
    ELSE IF StartsWith(entry, <<"[">>) /\ EndsWith(entry, <<"]">>)
        THEN "dynamic"
    ELSE "static"

\* RoutesProvider.getRouteType, used by findMatchingSegments
getRouteType(entry) ==
    IF StartsWith(entry, <<"(">>) /\ EndsWith(entry, <<")">>) THEN "group"
    ELSE IF ~IncludesChar(entry, "[") THEN "static"
    ELSE IF StartsWith(entry, <<"[", "[">>) /\ EndsWith(entry, <<"]", "]">>)
        THEN "optional"
    ELSE IF StartsWith(entry, <<"[", ".", ".", ".">>) THEN "rest"
    ELSE IF IncludesChar(entry, "[") /\ IncludesChar(entry, "=")
        THEN "matcher"
    ELSE "dynamic"

(***************************************************************************)
(* Parameter matchers: RoutesProvider.isParameterMatchGeneric.             *)
(***************************************************************************)
integer == <<"i", "n", "t", "e", "g", "e", "r">>
float == <<"f", "l", "o", "a", "t">>
alpha == <<"a", "l", "p", "h", "a">>
alphanumeric == <<"a", "l", "p", "h", "a", "n", "u", "m", "e", "r", "i", "c">>
uuid == <<"u", "u", "i", "d">>
date == <<"d", "a", "t", "e">>

\* the own keys of the object literal `patterns`
PatternKeys == {integer, float, alpha, alphanumeric, uuid, date}

\* property names every object literal inherits from Object.prototype:
\* patterns[name] is a truthy value that is no RegExp
ObjectPrototypeKeys ==
    { <<"c", "o", "n", "s", "t", "r", "u", "c", "t", "o", "r">>,
      <<"t", "o", "S", "t", "r", "i", "n", "g">>,
      <<"v", "a", "l", "u", "e", "O", "f">>,
      <<"_", "_", "p", "r", "o", "t", "o", "_", "_">> }

\* /^\d+$/
TestInteger(v) == Len(v) >= 1 /\ AllIn(v, 1, Len(v), Digits)

\* /^\d*\.?\d+$/ : i leading digits, an optional dot, then one digit or more
TestFloat(v) ==
    \E i \in 0..Len(v) : \E dot \in {0, 1} :
        /\ AllIn(v, 1, i, Digits)
        /\ dot = 1 => (i + 1 <= Len(v) /\ v[i + 1] = ".")
        /\ i + dot + 1 <= Len(v)
        /\ AllIn(v, i + dot + 1, Len(v), Digits)

\* /^[a-zA-Z]+$/
TestAlpha(v) == Len(v) >= 1 /\ AllIn(v, 1, Len(v), Letters)

\* /^[a-zA-Z0-9]+$/
TestAlphanumeric(v) == Len(v) >= 1 /\ AllIn(v, 1, Len(v), Letters \cup Digits)

\* /^[0-9a-f]{8}-[0-9a-f]{4}-[0-9a-f]{4}-[0-9a-f]{4}-[0-9a-f]{12}$/i
TestUuid(v) ==
    /\ Len(v) = 36
    /\ \A i \in {9, 14, 19, 24} : v[i] = "-"
    /\ \A i \in (1..36) \ {9, 14, 19, 24} : v[i] \in HexDigits

\* /^\d{4}-\d{2}-\d{2}$/
TestDate(v) ==
    /\ Len(v) = 10
    /\ \A i \in {5, 8} : v[i] = "-"
    /\ \A i \in (1..10) \ {5, 8} : v[i] \in Digits

\* patterns[matcher].test(value) for an own key of patterns
TestPattern(matcher, value) ==
    CASE matcher = integer -> TestInteger(value)
      [] matcher = float -> TestFloat(value)
      [] matcher = alpha -> TestAlpha(value)
      [] matcher = alphanumeric -> TestAlphanumeric(value)
      [] matcher = uuid -> TestUuid(value)
      [] matcher = date -> TestDate(value)

\* paramPattern.match(/\[([^=]+)=([^\]]+)\]/) anchored at position i:
\* "[", the characters up to the first "=" (one or more), "=", the
\* characters up to the first "]" after it (one or more), "]"
EqAfter(p, i) == {e \in (i + 1)..Len(p) : p[e] = "="}
CloseAfter(p, e) == {r \in (e + 1)..Len(p) : p[r] = "]"}
MatcherMatchAt(p, i) ==
    /\ p[i] = "["
    /\ EqAfter(p, i) # {}
    /\ Least(EqAfter(p, i)) > i + 1
    /\ CloseAfter(p, Least(EqAfter(p, i))) # {}
    /\ Least(CloseAfter(p, Least(EqAfter(p, i)))) > Least(EqAfter(p, i)) + 1

\* the positions where the regular expression matches; the leftmost is used
MatcherMatches(p) == {i \in 1..Len(p) : MatcherMatchAt(p, i)}

\* the second capture group of the leftmost match: the matcher name
MatcherName(p) ==
    LET i == Least(MatcherMatches(p))
        e == Least(EqAfter(p, i))
        r == Least(CloseAfter(p, e))
    IN SubSeq(p, e + 1, r - 1)

\* RoutesProvider.isParameterMatchGeneric: "true", "false", or "TypeError"
\* when patterns[matcher] is truthy and has no test method
isParameterMatchGeneric(value, paramPattern) ==
    IF MatcherMatches(paramPattern) = {} THEN "false"
    ELSE IF MatcherName(paramPattern) \in PatternKeys
        THEN IF TestPattern(MatcherName(paramPattern), value)
             THEN "true" ELSE "false"
    ELSE IF MatcherName(paramPattern) \in ObjectPrototypeKeys THEN "TypeError"
    ELSE "true"

(***************************************************************************)
(* The file system below the routes directory, and the resolver's state.   *)
(***************************************************************************)
VARIABLES
    hasWorkspace,  \* testRoot or vscode.workspace.workspaceFolders is set
    dirs,          \* the directories that exist (paths; <<>> = routes dir)
    files,         \* the regular files that exist (paths)
    readdirOrder,  \* the order in which readdir lists a directory
    pc,            \* "idle", or "returned" when findMatchingRoute settled
    request,       \* relativePath of the settled findMatchingRoute call
    result         \* what the call settled with

varsResolver == <<hasWorkspace, dirs, files, readdirOrder, pc, request, result>>

VARIABLES
    entryName,     \* a directory-entry name handed to the classifiers
    builderType,   \* determineRouteType(entryName), "none" before the call
    resolverType,  \* getRouteType(entryName), "none" before the call
    matchValue,    \* the path segment handed to isParameterMatchGeneric
    matchPattern,  \* the directory name handed to isParameterMatchGeneric
    accepted,      \* its outcome, "none" before the call
    routeA,        \* first argument of compareRoutes
    routeB,        \* second argument of compareRoutes
    sortingType,   \* svelteRadar.sortingType
    order          \* sign of compareRoutes(routeA, routeB), "none" before

VARIABLES
    flatView,      \* RoutesProvider.flatView
    platform,      \* "posix" or "win32": the separator path.join writes
    routes,        \* what the latest buildRoutesTree call returned
    previous,      \* what the buildRoutesTree call before it returned
    flatList       \* what flattenRoutes(routes) returned

VARIABLES
    tasks          \* two findMatchingRoute calls in flight, by call

VARIABLES
    searchPattern, \* RoutesProvider.searchPattern
    timeout,       \* RoutesProvider.timeout: the handle setTimeout returned
    timers,        \* the runtime's pending timers, each known by its due time
    inFlight,      \* search()/clearSearch() calls awaiting updateSearchContext
    now,           \* the time in ms
    editorEvents,  \* the times of the active-editor changes so far
    commands,      \* how many search and clearSearch commands were run
    refreshes      \* the refresh() calls so far: time, cause, searchPattern

varsClassify == <<entryName, builderType, resolverType>>
varsMatcher == <<matchValue, matchPattern, accepted>>
varsCompare == <<routeA, routeB, sortingType, order>>
varsBuild == <<flatView, platform, routes, previous, flatList>>
varsTasks == <<tasks>>
varsTimer ==
    <<searchPattern, timeout, timers, inFlight, now, editorEvents, commands,
      refreshes>>
vars ==
    <<varsResolver, varsClassify, varsMatcher, varsCompare, varsBuild, varsTasks,
      varsTimer>>

\* `timeout` before the first setTimeout
Undefined == -1

\* a provider just constructed, no editor change seen
IdleTimer ==
    /\ searchPattern = <<>>
    /\ timeout = Undefined
    /\ timers = {}
    /\ inFlight = <<>>
    /\ now = 0
    /\ editorEvents = {}
    /\ commands = 0
    /\ refreshes = {}

\* directory and file names that occur in the modelled routes directory
StaticA == <<"a">>
DynamicP == <<"[", "p", "]">>
MatcherInt == <<"[", "p", "=", "i", "n", "t", "e", "g", "e", "r", "]">>
OptionalP == <<"[", "[", "p", "]", "]">>
RestP == <<"[", ".", ".", ".", "p", "]">>
GroupG == <<"(", "g", ")">>
PageSvelte == <<"+", "p", "a", "g", "e", ".", "s", "v", "e", "l", "t", "e">>
ServerJs == <<"+", "s", "e", "r", "v", "e", "r", ".", "j", "s">>
ResetG ==
    <<"+", "p", "a", "g", "e", "@", "(", "g", ")", ".", "s", "v", "e", "l", "t", "e">>
ResetRoot == <<"+", "p", "a", "g", "e", "@", ".", "s", "v", "e", "l", "t", "e">>
ServerTs == <<"+", "s", "e", "r", "v", "e", "r", ".", "t", "s">>
LayoutSvelte ==
    <<"+", "l", "a", "y", "o", "u", "t", ".", "s", "v", "e", "l", "t", "e">>
Static1 == <<"1">>
DynamicQ == <<"[", "q", "]">>
OptionalQ == <<"[", "[", "q", "]", "]">>

DirNames == {StaticA, DynamicP, MatcherInt, OptionalP, RestP, GroupG}
FileNames == {PageSvelte, ServerJs}

\* the directory names of a routes tree of static and parameter routes,
\* without and with a rest route
ParamDirNames == {StaticA, DynamicP, MatcherInt}
BuildDirNames == {StaticA, GroupG}
BuildFileNames == {PageSvelte, ResetG}
RestDirNames == {StaticA, DynamicP, RestP}

\* the entries of a routes directory in which one entry of every kind
\* competes for a request, and what each entry holds: nothing, a page, or a
\* dynamic directory with a page. An empty directory yields no match like
\* an absent one and is kept for the static entry; a rest entry is never
\* searched below its own files.
ScoreDirNames == {Static1, MatcherInt, GroupG, DynamicP, OptionalP, RestP}
Shapes == {"absent", "empty", "page", "nested"}
ShapesOf(n) ==
    IF n = Static1 THEN Shapes
    ELSE IF n = RestP THEN {"absent", "page"}
    ELSE Shapes \ {"empty"}

\* the file names of a directory handed to findMostSpecificPage
PageFileNames ==
    {ResetG, ResetRoot, ServerJs, ServerTs, PageSvelte, LayoutSvelte}

\* a fixed ranking of the names; readdir lists a directory along it, in
\* ascending or in descending direction (Node leaves the order to the OS)
NameOrder ==
    <<LayoutSvelte, PageSvelte, ServerJs, ServerTs, ResetRoot, ResetG, GroupG,
      RestP, OptionalP, OptionalQ, MatcherInt, DynamicP, DynamicQ, Static1,
      StaticA>>

\* bounds of the modelled file system and of the request paths
MaxDepth == 2
MaxEntries == 4
MaxSegs == 2

\* the values a request segment takes
SegA == <<"a">>
Seg1 == <<"1">>
SegValues == {SegA, Seg1}

Reverse(q) == [i \in 1..Len(q) |-> q[Len(q) + 1 - i]]

\* fs.existsSync
existsSync(p) == p \in dirs \/ p \in files

\* the names readdir returns for an existing directory, in listing order
readdir(dir) ==
    LET present(n) == existsSync(dir \o <<n>>)
    IN IF readdirOrder = "asc" THEN SelectSeq(NameOrder, present)
       ELSE SelectSeq(Reverse(NameOrder), present)

\* values a call settles with: a file path, null, or a thrown error
File(p) == [tag |-> "file", path |-> p, error |-> ""]
Null == [tag |-> "null", path |-> <<>>, error |-> ""]
Throw(e) == [tag |-> "throw", path |-> <<>>, error |-> e]
NoResult == [tag |-> "none", path |-> <<>>, error |-> ""]
NoRequest == <<"-">>

\* f.match(/\+page@\([^)]+\)\.svelte$/): "+page@(", one or more characters
\* other than ")", then ").svelte" at the end of the name
ResetSuffix == <<")", ".", "s", "v", "e", "l", "t", "e">>
ResetPrefix == <<"+", "p", "a", "g", "e", "@", "(">>
IsResetWithTarget(f) ==
    /\ EndsWith(f, ResetSuffix)
    /\ \E i \in 1..Len(f) :
        /\ i + 6 <= Len(f)
        /\ SubSeq(f, i, i + 6) = ResetPrefix
        /\ i + 7 <= Len(f) - 8
        /\ \A k \in (i + 7)..(Len(f) - 8) : f[k] # ")"

\* the four checks of filePriorities, most specific first
FilePriority(k, f) ==
    CASE k = 1 -> IsResetWithTarget(f)
      [] k = 2 -> f = ResetRoot
      [] k = 3 -> f = ServerJs
      [] k = 4 -> f = PageSvelte

\* files.find(check): the first listed name that passes check k, or <<>>
FindFile(listing, k) ==
    LET hits == {i \in 1..Len(listing) : FilePriority(k, listing[i])}
    IN IF hits = {} THEN <<>> ELSE listing[Least(hits)]

\* RoutesProvider.findMostSpecificPage
findMostSpecificPage(dir) ==
    IF ~existsSync(dir) THEN Null
    ELSE IF dir \notin dirs THEN Throw("ENOTDIR")
    ELSE LET listing == readdir(dir)
             found == {k \in 1..4 : FindFile(listing, k) # <<>>}
         IN IF found = {} THEN Null
            ELSE File(dir \o <<FindFile(listing, Least(found))>>)

(***************************************************************************)
(* RoutesProvider.findMatchingSegments and findMatchingRoute.              *)
(***************************************************************************)
\* a candidate of one pass: the match and its score
Candidate(m, sc) == [match |-> m, score |-> sc]
NoCandidate == Candidate(Null, -1)

RECURSIVE findMatchingSegments(_, _)
RECURSIVE OptionalScan(_, _, _)
RECURSIVE FirstPass(_, _, _, _, _)
RECURSIVE SecondPass(_, _, _, _, _)

\* the loop over the entries when no segment is left: the first entry named
\* [[..]] whose most specific page exists is returned
OptionalScan(currentDir, entries, i) ==
    IF i > Len(entries) THEN findMostSpecificPage(currentDir)
    ELSE LET entry == entries[i]
             optionalMatch == findMostSpecificPage(currentDir \o <<entry>>)
         IN IF StartsWith(entry, <<"[", "[">>) /\ EndsWith(entry, <<"]", "]">>)
            THEN IF optionalMatch.tag = "null"
                 THEN OptionalScan(currentDir, entries, i + 1)
                 ELSE optionalMatch
            ELSE OptionalScan(currentDir, entries, i + 1)

\* a slip: the static branch of the first pass is lost, so an entry named
\* like the segment is not tried before the dynamic entries
FirstPassAttemptNoStatic(currentDir, segments, entry) ==
    LET fullPath == currentDir \o <<entry>>
        routeType == getRouteType(entry)
        accepts == isParameterMatchGeneric(segments[1], entry)
    IN IF routeType = "matcher"
       THEN IF accepts = "TypeError" THEN Candidate(Throw("TypeError"), 0)
            ELSE IF accepts = "true"
            THEN Candidate(findMatchingSegments(fullPath, Tail(segments)), 90)
            ELSE Candidate(Null, 0)
       ELSE Candidate(Null, 0)

\* a slip: the matcher branch does not test the segment
FirstPassAttemptAnyMatcher(currentDir, segments, entry) ==
    LET fullPath == currentDir \o <<entry>>
        routeType == getRouteType(entry)
    IN IF routeType = "static" /\ entry = segments[1]
       THEN Candidate(findMatchingSegments(fullPath, Tail(segments)), 100)
       ELSE IF routeType = "matcher"
       THEN Candidate(findMatchingSegments(fullPath, Tail(segments)), 90)
       ELSE Candidate(Null, 0)

\* a slip: a static entry is followed whatever the segment is
FirstPassAttemptAnyStatic(currentDir, segments, entry) ==
    LET fullPath == currentDir \o <<entry>>
        routeType == getRouteType(entry)
        accepts == isParameterMatchGeneric(segments[1], entry)
    IN IF routeType = "static"
       THEN Candidate(findMatchingSegments(fullPath, Tail(segments)), 100)
       ELSE IF routeType = "matcher"
       THEN IF accepts = "TypeError" THEN Candidate(Throw("TypeError"), 0)
            ELSE IF accepts = "true"
            THEN Candidate(findMatchingSegments(fullPath, Tail(segments)), 90)
            ELSE Candidate(Null, 0)
       ELSE Candidate(Null, 0)

\* what one entry yields in the first pass (static and matcher entries)
FirstPassAttempt(currentDir, segments, entry) ==
    LET fullPath == currentDir \o <<entry>>
        routeType == getRouteType(entry)
        accepts == isParameterMatchGeneric(segments[1], entry)
    IN IF routeType = "static" /\ entry = segments[1]
       THEN Candidate(findMatchingSegments(fullPath, Tail(segments)), 100)
       ELSE IF routeType = "matcher"
       THEN IF accepts = "TypeError" THEN Candidate(Throw("TypeError"), 0)
            ELSE IF accepts = "true"
            THEN Candidate(findMatchingSegments(fullPath, Tail(segments)), 90)
            ELSE Candidate(Null, 0)
       ELSE Candidate(Null, 0)

\* the first loop; a thrown error ends the call
FirstPass(currentDir, segments, entries, i, best) ==
    IF i > Len(entries) THEN best
    ELSE IF (currentDir \o <<entries[i]>>) \notin dirs
    THEN FirstPass(currentDir, segments, entries, i + 1, best)
    ELSE LET attempt == FirstPassAttempt(currentDir, segments, entries[i])
         IN IF attempt.match.tag = "throw" THEN attempt
            ELSE IF attempt.match.tag = "file" /\ attempt.score > best.score
            THEN FirstPass(currentDir, segments, entries, i + 1, attempt)
            ELSE FirstPass(currentDir, segments, entries, i + 1, best)

\* the optional case: consume the segment, else retry without consuming it
OptionalAttempt(fullPath, segments) ==
    LET consuming == findMatchingSegments(fullPath, Tail(segments))
        skipping == findMatchingSegments(fullPath, segments)
    IN IF consuming.tag # "null" THEN Candidate(consuming, 70)
       ELSE IF skipping.tag # "null" THEN Candidate(skipping, 60)
       ELSE Candidate(Null, 0)

\* a slip: the rest case consumes one segment like the dynamic case
SecondPassAttemptRestOne(currentDir, segments, entry) ==
    LET fullPath == currentDir \o <<entry>>
        routeType == getRouteType(entry)
    IN CASE routeType = "group" ->
              Candidate(findMatchingSegments(fullPath, segments), 95)
         [] routeType = "dynamic" ->
              Candidate(findMatchingSegments(fullPath, Tail(segments)), 80)
         [] routeType = "optional" -> OptionalAttempt(fullPath, segments)
         [] routeType = "rest" ->
              Candidate(findMatchingSegments(fullPath, Tail(segments)), 50)
         [] OTHER -> Candidate(Null, 0)

\* what one entry yields in the second pass (the switch on routeType)
SecondPassAttempt(currentDir, segments, entry) ==
    LET fullPath == currentDir \o <<entry>>
        routeType == getRouteType(entry)
    IN CASE routeType = "group" ->
              Candidate(findMatchingSegments(fullPath, segments), 95)
         [] routeType = "dynamic" ->
              Candidate(findMatchingSegments(fullPath, Tail(segments)), 80)
         [] routeType = "optional" -> OptionalAttempt(fullPath, segments)
         [] routeType = "rest" -> Candidate(findMostSpecificPage(fullPath), 50)
         [] OTHER -> Candidate(Null, 0)

\* a slip: the second loop keeps the first match it finds, whatever the score
RECURSIVE SecondPassFirstWins(_, _, _, _, _)
SecondPassFirstWins(currentDir, segments, entries, i, best) ==
    IF i > Len(entries) THEN best
    ELSE IF (currentDir \o <<entries[i]>>) \notin dirs
    THEN SecondPassFirstWins(currentDir, segments, entries, i + 1, best)
    ELSE LET attempt == SecondPassAttempt(currentDir, segments, entries[i])
         IN IF attempt.match.tag = "throw" THEN attempt
            ELSE IF attempt.match.tag = "file" /\ best.match.tag # "file"
            THEN SecondPassFirstWins(currentDir, segments, entries, i + 1, attempt)
            ELSE SecondPassFirstWins(currentDir, segments, entries, i + 1, best)

\* the second loop
SecondPass(currentDir, segments, entries, i, best) ==
    IF i > Len(entries) THEN best
    ELSE IF (currentDir \o <<entries[i]>>) \notin dirs
    THEN SecondPass(currentDir, segments, entries, i + 1, best)
    ELSE LET attempt == SecondPassAttempt(currentDir, segments, entries[i])
         IN IF attempt.match.tag = "throw" THEN attempt
            ELSE IF attempt.match.tag = "file" /\ attempt.score > best.score
            THEN SecondPass(currentDir, segments, entries, i + 1, attempt)
            ELSE SecondPass(currentDir, segments, entries, i + 1, best)

\* a slip: the second loop follows the first whatever the first found
findMatchingSegmentsBothPasses(currentDir, segments) ==
    IF ~existsSync(currentDir) THEN Throw("ENOENT")
    ELSE IF currentDir \notin dirs THEN Throw("ENOTDIR")
    ELSE IF Len(segments) = 0
    THEN OptionalScan(currentDir, readdir(currentDir), 1)
    ELSE LET entries == readdir(currentDir)
             first == FirstPass(currentDir, segments, entries, 1, NoCandidate)
         IN IF first.match.tag = "throw" THEN first.match
            ELSE SecondPass(currentDir, segments, entries, 1, first).match

\* RoutesProvider.findMatchingSegments
findMatchingSegments(currentDir, segments) ==
    IF ~existsSync(currentDir) THEN Throw("ENOENT")
    ELSE IF currentDir \notin dirs THEN Throw("ENOTDIR")
    ELSE IF Len(segments) = 0
    THEN OptionalScan(currentDir, readdir(currentDir), 1)
    ELSE LET entries == readdir(currentDir)
             first == FirstPass(currentDir, segments, entries, 1, NoCandidate)
         IN IF first.match.tag # "null" THEN first.match
            ELSE SecondPass(currentDir, segments, entries, 1, first).match

\* the entries the switch of the second loop runs on: none when the first
\* loop left a match, else every directory entry of the four kinds
SecondPassEvaluated(currentDir, segments) ==
    LET entries == readdir(currentDir)
        first == FirstPass(currentDir, segments, entries, 1, NoCandidate)
    IN IF first.match.tag # "null" THEN {}
       ELSE {entries[i] : i \in
               {k \in 1..Len(entries) :
                   /\ (currentDir \o <<entries[k]>>) \in dirs
                   /\ getRouteType(entries[k])
                         \in {"group", "dynamic", "optional", "rest"}}}

\* relativePath.split("/").filter(Boolean): the non-empty pieces between
\* slashes
RECURSIVE SplitSegments(_, _)
SplitSegments(path, piece) ==
    IF path = <<>> THEN (IF piece = <<>> THEN <<>> ELSE <<piece>>)
    ELSE IF Head(path) = "/"
    THEN (IF piece = <<>> THEN <<>> ELSE <<piece>>)
             \o SplitSegments(Tail(path), <<>>)
    ELSE SplitSegments(Tail(path), Append(piece, Head(path)))

\* a slip: the root path is not handled apart and goes through the
\* segment matching like every other path
findMatchingRouteNoRootCase(relativePath) ==
    IF ~hasWorkspace THEN Throw("Error")
    ELSE findMatchingSegments(<<>>, SplitSegments(relativePath, <<>>))

\* RoutesProvider.findMatchingRoute (getRoutesDir throws without workspace)
findMatchingRoute(relativePath) ==
    IF ~hasWorkspace THEN Throw("Error")
    ELSE IF relativePath = <<"/">> \/ relativePath = <<>>
    THEN findMostSpecificPage(<<>>)
    ELSE findMatchingSegments(<<>>, SplitSegments(relativePath, <<>>))

(***************************************************************************)
(* The resolver as a state machine: the environment creates directories    *)
(* and files, a caller runs findMatchingRoute and takes the result.        *)
(***************************************************************************)
\* the segment lists of the request paths
SegLists == UNION {[1..n -> SegValues] : n \in 1..MaxSegs}

\* "/" followed by the segments joined with "/"
RECURSIVE PathOf(_)
PathOf(segs) ==
    IF segs = <<>> THEN <<>> ELSE <<"/">> \o Head(segs) \o PathOf(Tail(segs))

\* the request paths: the root forms and one path per segment list
Requests == {<<>>, <<"/">>, <<"/", "/">>} \cup {PathOf(segs) : segs \in SegLists}

\* the request paths with at least one segment
SegmentRequests == {PathOf(segs) : segs \in SegLists}

EntryCount == Cardinality(dirs \ {<<>>}) + Cardinality(files)

InitResolver ==
    /\ hasWorkspace \in BOOLEAN
    /\ dirs = {}
    /\ files = {}
    /\ readdirOrder \in {"asc", "desc"}
    /\ pc = "idle"
    /\ request = NoRequest
    /\ result = NoResult

\* the routes directory is created
MkRoutesDir ==
    /\ pc = "idle"
    /\ ~routes.built
    /\ hasWorkspace
    /\ <<>> \notin dirs
    /\ dirs' = {<<>>}
    /\ UNCHANGED <<hasWorkspace, files, readdirOrder, pc, request, result>>
    /\ UNCHANGED <<varsClassify, varsMatcher, varsCompare, varsBuild, varsTasks,
                   varsTimer>>

\* a directory is created inside an existing directory
Mkdir(parent, name) ==
    /\ pc = "idle"
    /\ ~routes.built
    /\ parent \in dirs
    /\ Len(parent) < MaxDepth
    /\ EntryCount < MaxEntries
    /\ ~existsSync(parent \o <<name>>)
    /\ dirs' = dirs \cup {parent \o <<name>>}
    /\ UNCHANGED <<hasWorkspace, files, readdirOrder, pc, request, result>>
    /\ UNCHANGED <<varsClassify, varsMatcher, varsCompare, varsBuild, varsTasks,
                   varsTimer>>

\* a file is created inside an existing directory
WriteFile(parent, name) ==
    /\ pc = "idle"
    /\ ~routes.built
    /\ parent \in dirs
    /\ EntryCount < MaxEntries
    /\ ~existsSync(parent \o <<name>>)
    /\ files' = files \cup {parent \o <<name>>}
    /\ UNCHANGED <<hasWorkspace, dirs, readdirOrder, pc, request, result>>
    /\ UNCHANGED <<varsClassify, varsMatcher, varsCompare, varsBuild, varsTasks,
                   varsTimer>>

\* a call of findMatchingRoute runs to its end on the unchanged file system
FindMatchingRoute(relativePath) ==
    /\ pc = "idle"
    /\ pc' = "returned"
    /\ request' = relativePath
    /\ result' = findMatchingRoute(relativePath)
    /\ UNCHANGED <<hasWorkspace, dirs, files, readdirOrder>>
    /\ UNCHANGED <<varsClassify, varsMatcher, varsCompare, varsBuild, varsTasks,
                   varsTimer>>

\* the caller has taken the result; its locals are gone
Return ==
    /\ pc = "returned"
    /\ pc' = "idle"
    /\ request' = NoRequest
    /\ result' = NoResult
    /\ UNCHANGED <<hasWorkspace, dirs, files, readdirOrder>>
    /\ UNCHANGED <<varsClassify, varsMatcher, varsCompare, varsBuild, varsTasks,
                   varsTimer>>

\* the operating system lists directories in the other direction from now
\* on (fs.promises.readdir promises no order)
ReaddirOrderChanges ==
    /\ readdirOrder' = IF readdirOrder = "asc" THEN "desc" ELSE "asc"
    /\ UNCHANGED <<hasWorkspace, dirs, files, pc, request, result>>
    /\ UNCHANGED <<varsClassify, varsMatcher, varsCompare, varsBuild, varsTasks,
                   varsTimer>>

\* the routes directory in which entry n has the shape shape[n]
TreeDirs(shape) ==
    {<<>>}
        \cup {<<n>> : n \in {k \in ScoreDirNames : shape[k] # "absent"}}
        \cup {<<n, DynamicP>> : n \in {k \in ScoreDirNames : shape[k] = "nested"}}

TreeFiles(shape) ==
    {<<n, PageSvelte>> : n \in {k \in ScoreDirNames : shape[k] = "page"}}
        \cup {<<n, DynamicP, PageSvelte>> :
                 n \in {k \in ScoreDirNames : shape[k] = "nested"}}

\* findMostSpecificPage is called on the routes directory
FindMostSpecificPage ==
    /\ pc = "idle"
    /\ pc' = "found"
    /\ result' = findMostSpecificPage(<<>>)
    /\ UNCHANGED <<hasWorkspace, dirs, files, readdirOrder, request>>
    /\ UNCHANGED <<varsClassify, varsMatcher, varsCompare, varsBuild, varsTasks,
                   varsTimer>>

(***************************************************************************)
(* Two findMatchingRoute calls interleaved at their await points.  A call  *)
(* is a stack of findMatchingSegments invocations; each invocation keeps   *)
(* its own entries, loop index, bestMatch and bestScore.                   *)
(***************************************************************************)
TaskIds == {1, 2}

\* a call that was not made, and a call about to be made for a path
IdleTask(relativePath) ==
    [request |-> relativePath, status |-> "idle", stack |-> <<>>,
     returned |-> NoResult, result |-> NoResult]
IdleTasks == tasks = [t \in TaskIds |-> IdleTask(NoRequest)]

\* an invocation of findMatchingSegments before its readdir resolved
Frame(currentDir, segments) ==
    [currentDir |-> currentDir, segments |-> segments, phase |-> "readdir",
     entries |-> <<>>, i |-> 1, best |-> NoCandidate, score |-> 0,
     retry |-> FALSE]

Front(q) == SubSeq(q, 1, Len(q) - 1)
Top(task) == task.stack[Len(task.stack)]
WithTop(task, frame) == [task EXCEPT !.stack[Len(task.stack)] = frame]

\* the invocation on top awaits a nested invocation
Call(task, caller, callee) ==
    [task EXCEPT !.stack = Append(Front(task.stack), caller) \o <<callee>>]

\* the invocation on top settles: a rejection ends the whole call (no
\* catch on the way), a value goes to the awaiting invocation or, from the
\* outermost one, to the caller of findMatchingRoute
Settle(task, value) ==
    IF value.tag = "throw" \/ Len(task.stack) <= 1
    THEN [task EXCEPT !.status = "done", !.stack = <<>>,
                      !.returned = NoResult, !.result = value]
    ELSE [task EXCEPT !.stack = Front(task.stack), !.returned = value]

\* a slip: bestMatch and bestScore are kept on the provider, so an
\* invocation sees the best candidate of whichever call is ahead
SharedBest(t) ==
    LET running == {u \in TaskIds : tasks[u].stack # <<>>}
        ahead == CHOOSE u \in running :
                    \A o \in running : Top(tasks[u]).best.score
                                         >= Top(tasks[o]).best.score
    IN IF Top(tasks[t]).best.score >= Top(tasks[ahead]).best.score
       THEN Top(tasks[t]).best
       ELSE Top(tasks[ahead]).best

\* bestMatch and bestScore of the invocation on top of call t
LocalBest(t) == Top(tasks[t]).best

\* if (match && score > bestScore) { bestMatch = match; bestScore = score }
BestAfter(t, match, score) ==
    IF match.tag = "file" /\ score > LocalBest(t).score
    THEN Candidate(match, score)
    ELSE LocalBest(t)

\* findMatchingRoute is called
StartCall(t) ==
    /\ tasks[t].status = "idle"
    /\ tasks[t].request # NoRequest
    /\ LET task == tasks[t]
           relativePath == task.request
       IN tasks' = [tasks EXCEPT ![t] =
            IF ~hasWorkspace THEN Settle(task, Throw("Error"))
            ELSE IF relativePath = <<"/">> \/ relativePath = <<>>
            THEN Settle(task, findMostSpecificPage(<<>>))
            ELSE [task EXCEPT
                    !.status = "running",
                    !.stack = <<Frame(<<>>, SplitSegments(relativePath, <<>>))>>]]
    /\ UNCHANGED <<varsResolver, varsClassify, varsMatcher, varsCompare, varsBuild,
                   varsTimer>>

\* await fs.promises.readdir(currentDir) settles
ReaddirSettles(t) ==
    /\ tasks[t].status = "running"
    /\ Top(tasks[t]).phase = "readdir"
    /\ LET task == tasks[t]
           frame == Top(task)
       IN tasks' = [tasks EXCEPT ![t] =
            IF ~existsSync(frame.currentDir) THEN Settle(task, Throw("ENOENT"))
            ELSE IF frame.currentDir \notin dirs
            THEN Settle(task, Throw("ENOTDIR"))
            ELSE WithTop(task,
                    [frame EXCEPT
                       !.entries = readdir(frame.currentDir),
                       !.phase = IF Len(frame.segments) = 0
                                 THEN "optionalScan" ELSE "firstPass"])]
    /\ UNCHANGED <<varsResolver, varsClassify, varsMatcher, varsCompare, varsBuild,
                   varsTimer>>

\* one round of the loop over the entries when no segment is left
OptionalScanStep(t) ==
    /\ tasks[t].status = "running"
    /\ Top(tasks[t]).phase = "optionalScan"
    /\ LET task == tasks[t]
           frame == Top(task)
           entry == frame.entries[frame.i]
           optionalMatch == findMostSpecificPage(frame.currentDir \o <<entry>>)
       IN tasks' = [tasks EXCEPT ![t] =
            IF frame.i > Len(frame.entries)
            THEN Settle(task, findMostSpecificPage(frame.currentDir))
            ELSE IF /\ StartsWith(entry, <<"[", "[">>)
                    /\ EndsWith(entry, <<"]", "]">>)
                    /\ optionalMatch.tag # "null"
            THEN Settle(task, optionalMatch)
            ELSE WithTop(task, [frame EXCEPT !.i = frame.i + 1])]
    /\ UNCHANGED <<varsResolver, varsClassify, varsMatcher, varsCompare, varsBuild,
                   varsTimer>>

\* one round of the first loop up to its await, or the end of the loop
FirstPassStep(t) ==
    /\ tasks[t].status = "running"
    /\ Top(tasks[t]).phase = "firstPass"
    /\ LET task == tasks[t]
           frame == Top(task)
           entry == frame.entries[frame.i]
           fullPath == frame.currentDir \o <<entry>>
           routeType == getRouteType(entry)
           accepts == isParameterMatchGeneric(frame.segments[1], entry)
           next == WithTop(task, [frame EXCEPT !.i = frame.i + 1])
           awaiting(score) ==
               Call(task,
                    [frame EXCEPT !.phase = "firstPassAwait", !.score = score],
                    Frame(fullPath, Tail(frame.segments)))
       IN tasks' = [tasks EXCEPT ![t] =
            IF frame.i > Len(frame.entries)
            THEN IF LocalBest(t).match.tag = "file"
                 THEN Settle(task, LocalBest(t).match)
                 ELSE WithTop(task, [frame EXCEPT !.phase = "secondPass", !.i = 1])
            ELSE IF fullPath \notin dirs THEN next
            ELSE IF routeType = "static" /\ entry = frame.segments[1]
            THEN awaiting(100)
            ELSE IF routeType = "matcher"
            THEN IF accepts = "TypeError" THEN Settle(task, Throw("TypeError"))
                 ELSE IF accepts = "true" THEN awaiting(90)
                 ELSE next
            ELSE next]
    /\ UNCHANGED <<varsResolver, varsClassify, varsMatcher, varsCompare, varsBuild,
                   varsTimer>>

\* a slip: the loop does not move on to the next entry after its await
FirstPassResumeSameEntry(t) ==
    /\ tasks[t].status = "running"
    /\ Top(tasks[t]).phase = "firstPassAwait"
    /\ LET task == tasks[t]
           frame == Top(task)
       IN tasks' = [tasks EXCEPT ![t] =
            [WithTop(task,
                [frame EXCEPT
                   !.best = BestAfter(t, task.returned, frame.score),
                   !.phase = "firstPass"])
             EXCEPT !.returned = NoResult]]
    /\ UNCHANGED <<varsResolver, varsClassify, varsMatcher, varsCompare, varsBuild,
                   varsTimer>>

\* the nested invocation of the first loop settled
FirstPassResume(t) ==
    /\ tasks[t].status = "running"
    /\ Top(tasks[t]).phase = "firstPassAwait"
    /\ LET task == tasks[t]
           frame == Top(task)
       IN tasks' = [tasks EXCEPT ![t] =
            [WithTop(task,
                [frame EXCEPT
                   !.best = BestAfter(t, task.returned, frame.score),
                   !.i = frame.i + 1,
                   !.phase = "firstPass"])
             EXCEPT !.returned = NoResult]]
    /\ UNCHANGED <<varsResolver, varsClassify, varsMatcher, varsCompare, varsBuild,
                   varsTimer>>

\* one round of the second loop up to its await, or the end of the loop
SecondPassStep(t) ==
    /\ tasks[t].status = "running"
    /\ Top(tasks[t]).phase = "secondPass"
    /\ LET task == tasks[t]
           frame == Top(task)
           entry == frame.entries[frame.i]
           fullPath == frame.currentDir \o <<entry>>
           routeType == getRouteType(entry)
           next == WithTop(task, [frame EXCEPT !.i = frame.i + 1])
           awaiting(segments, score) ==
               Call(task,
                    [frame EXCEPT !.phase = "secondPassAwait", !.score = score,
                                  !.retry = FALSE],
                    Frame(fullPath, segments))
       IN tasks' = [tasks EXCEPT ![t] =
            IF frame.i > Len(frame.entries)
            THEN Settle(task, LocalBest(t).match)
            ELSE IF fullPath \notin dirs THEN next
            ELSE CASE routeType = "group" -> awaiting(frame.segments, 95)
                   [] routeType = "dynamic" -> awaiting(Tail(frame.segments), 80)
                   [] routeType = "optional" -> awaiting(Tail(frame.segments), 70)
                   [] routeType = "rest" ->
                        WithTop(task,
                            [frame EXCEPT
                               !.best = BestAfter(t, findMostSpecificPage(fullPath), 50),
                               !.i = frame.i + 1])
                   [] OTHER -> next]
    /\ UNCHANGED <<varsResolver, varsClassify, varsMatcher, varsCompare, varsBuild,
                   varsTimer>>

\* the nested invocation of the second loop settled; the optional case
\* tries again without consuming the segment
SecondPassResume(t) ==
    /\ tasks[t].status = "running"
    /\ Top(tasks[t]).phase = "secondPassAwait"
    /\ LET task == tasks[t]
           frame == Top(task)
           entry == frame.entries[frame.i]
           fullPath == frame.currentDir \o <<entry>>
       IN tasks' = [tasks EXCEPT ![t] =
            IF /\ getRouteType(entry) = "optional"
               /\ ~frame.retry
               /\ task.returned.tag = "null"
            THEN [Call(task, [frame EXCEPT !.score = 60, !.retry = TRUE],
                       Frame(fullPath, frame.segments))
                  EXCEPT !.returned = NoResult]
            ELSE [WithTop(task,
                     [frame EXCEPT
                        !.best = BestAfter(t, task.returned, frame.score),
                        !.i = frame.i + 1,
                        !.phase = "secondPass",
                        !.retry = FALSE])
                  EXCEPT !.returned = NoResult]]
    /\ UNCHANGED <<varsResolver, varsClassify, varsMatcher, varsCompare, varsBuild,
                   varsTimer>>

\* the routes directories with one or two entries, each holding a page (the
\* group entry: a dynamic directory with a page)
TaskTrees ==
    {S \in SUBSET ScoreDirNames : \E a, b \in ScoreDirNames : S = {a, b}}

TaskShape(S) ==
    [n \in ScoreDirNames |->
        IF n \notin S THEN "absent"
        ELSE IF n = GroupG THEN "nested" ELSE "page"]

\* the paths of one segment
FirstRequests == {PathOf(<<v>>) : v \in SegValues}

(***************************************************************************)
(* RoutesProvider.compareRoutes and RouteUtils.naturalSort.                *)
(***************************************************************************)
\* String.prototype.localeCompare on the characters used here: the root
\* collation orders punctuation before symbols before digits before letters
CollationOrder ==
    <<"_", "-", ",", ";", ":", "!", "?", ".", "(", ")", "[", "]", "{", "}",
      "@", "*", "/", "&", "#", "%", "^", "+", "<", "=", ">", "|", "~", "$",
      "0", "1", "2", "3", "4", "5", "6", "7", "8", "9",
      "a", "b", "c", "d", "e", "f", "g", "h", "i", "j", "k", "l", "m",
      "n", "o", "p", "q", "r", "s", "t", "u", "v", "w", "x", "y", "z">>

CollationRank(c) == Least({i \in 1..Len(CollationOrder) : CollationOrder[i] = c})

RECURSIVE localeCompare(_, _)
localeCompare(a, b) ==
    IF a = <<>> /\ b = <<>> THEN 0
    ELSE IF a = <<>> THEN -1
    ELSE IF b = <<>> THEN 1
    ELSE IF CollationRank(Head(a)) < CollationRank(Head(b)) THEN -1
    ELSE IF CollationRank(Head(a)) > CollationRank(Head(b)) THEN 1
    ELSE localeCompare(Tail(a), Tail(b))

\* the characters of the names in code-unit (ASCII) order
CodeUnitOrder ==
    <<"!", "#", "$", "%", "&", "(", ")", "*", "+", ",", "-", ".", "/",
      "0", "1", "2", "3", "4", "5", "6", "7", "8", "9",
      ":", ";", "<", "=", ">", "?", "@", "[", "]", "^", "_",
      "a", "b", "c", "d", "e", "f", "g", "h", "i", "j", "k", "l", "m",
      "n", "o", "p", "q", "r", "s", "t", "u", "v", "w", "x", "y", "z",
      "{", "|", "}", "~">>

CodeUnit(c) == Least({i \in 1..Len(CodeUnitOrder) : CodeUnitOrder[i] = c})

\* comparison of two strings by UTF-16 code units (a < b, Array.sort())
RECURSIVE CodeUnitCompare(_, _)
CodeUnitCompare(a, b) ==
    IF a = <<>> /\ b = <<>> THEN 0
    ELSE IF a = <<>> THEN -1
    ELSE IF b = <<>> THEN 1
    ELSE IF CodeUnit(Head(a)) < CodeUnit(Head(b)) THEN -1
    ELSE IF CodeUnit(Head(a)) > CodeUnit(Head(b)) THEN 1
    ELSE CodeUnitCompare(Tail(a), Tail(b))

\* route.split("/").pop() || "": the characters after the last slash
LastSegment(route) ==
    LET slashes == {i \in 1..Len(route) : route[i] = "/"}
    IN IF slashes = {} THEN route
       ELSE Slice(route, CHOOSE i \in slashes : \A j \in slashes : j <= i)

\* getRoutePriority inside compareRoutes
getRoutePriority(route) ==
    LET segment == LastSegment(route)
    IN IF StartsWith(segment, <<"[", ".", ".", ".">>) THEN 0
       ELSE IF StartsWith(segment, <<"[", "[">>) THEN 1
       ELSE IF IncludesChar(segment, "[") THEN 2
       ELSE 3

\* the length of the longest prefix of s inside / outside the digits
RECURSIVE DigitPrefixLen(_)
DigitPrefixLen(s) ==
    IF s = <<>> \/ Head(s) \notin Digits THEN 0 ELSE 1 + DigitPrefixLen(Tail(s))

RECURSIVE TextPrefixLen(_)
TextPrefixLen(s) ==
    IF s = <<>> \/ Head(s) \in Digits THEN 0 ELSE 1 + TextPrefixLen(Tail(s))

DigitValue(c) ==
    CASE c = "0" -> 0 [] c = "1" -> 1 [] c = "2" -> 2 [] c = "3" -> 3
      [] c = "4" -> 4 [] c = "5" -> 5 [] c = "6" -> 6 [] c = "7" -> 7
      [] c = "8" -> 8 [] c = "9" -> 9

\* parseInt of a run of digits
RECURSIVE ParseInt(_, _)
ParseInt(run, acc) ==
    IF run = <<>> THEN acc
    ELSE ParseInt(Tail(run), 10 * acc + DigitValue(Head(run)))

TextPart(t) == [isNumber |-> FALSE, text |-> t, number |-> 0]
NumberPart(n) == [isNumber |-> TRUE, text |-> <<>>, number |-> n]

\* str.split(/(\d+)/).map(parseInt or keep): text, number, text, ... , text
RECURSIVE splitIntoPartsWithNumbers(_)
splitIntoPartsWithNumbers(str) ==
    LET t == TextPrefixLen(str)
        rest == Slice(str, t)
        d == DigitPrefixLen(rest)
    IN IF t = Len(str) THEN <<TextPart(str)>>
       ELSE <<TextPart(SubSeq(str, 1, t)),
              NumberPart(ParseInt(SubSeq(rest, 1, d), 0))>>
                \o splitIntoPartsWithNumbers(Slice(rest, d))

Min(x, y) == IF x <= y THEN x ELSE y

\* the loop of naturalSort from part i on
RECURSIVE NaturalCompareFrom(_, _, _)
NaturalCompareFrom(partsA, partsB, i) ==
    IF i > Min(Len(partsA), Len(partsB)) THEN Len(partsA) - Len(partsB)
    ELSE IF partsA[i] = partsB[i] THEN NaturalCompareFrom(partsA, partsB, i + 1)
    ELSE IF partsA[i].isNumber /\ partsB[i].isNumber
    THEN partsA[i].number - partsB[i].number
    ELSE localeCompare(partsA[i].text, partsB[i].text)

\* RouteUtils.naturalSort
naturalSort(a, b) ==
    NaturalCompareFrom(splitIntoPartsWithNumbers(a),
                       splitIntoPartsWithNumbers(b), 1)

\* a slip: the sorting setting is not read and every pair is compared as
\* under the basic setting
compareRoutesNoSetting(a, b, st) ==
    IF getRoutePriority(a) # getRoutePriority(b)
    THEN getRoutePriority(b) - getRoutePriority(a)
    ELSE localeCompare(a, b)

\* RoutesProvider.compareRoutes under the setting st
compareRoutes(a, b, st) ==
    IF getRoutePriority(a) # getRoutePriority(b)
    THEN getRoutePriority(b) - getRoutePriority(a)
    ELSE IF st = "natural" THEN naturalSort(a, b)
    ELSE localeCompare(a, b)

Sign(n) == IF n < 0 THEN "before" ELSE IF n > 0 THEN "after" ELSE "equal"

(***************************************************************************)
(* The tree builder: findPageInfo, parseResetInfo, buildRoutesTree.        *)
(***************************************************************************)
\* ResetInfo | null
NoResetInfo ==
    [isNull |-> TRUE, resetTarget |-> <<>>, displayName |-> <<>>,
     layoutLevel |-> 0]
ResetInfo(target) ==
    [isNull |-> FALSE, resetTarget |-> target, displayName |-> target,
     layoutLevel |-> 0]

PagePrefix == <<"+", "p", "a", "g", "e", "@">>
SvelteSuffix == <<".", "s", "v", "e", "l", "t", "e">>
Root == <<"r", "o", "o", "t">>

\* the positions where /\+page@(.*)\.svelte$/ matches: "+page@" there and
\* ".svelte" at the end, after it
ResetMatches(fileName) ==
    {i \in 1..Len(fileName) :
        /\ i + 5 <= Len(fileName) - 7
        /\ SubSeq(fileName, i, i + 5) = PagePrefix
        /\ EndsWith(fileName, SvelteSuffix)}

\* RoutesProvider.parseResetInfo
parseResetInfo(fileName) ==
    IF ResetMatches(fileName) = {} THEN NoResetInfo
    ELSE LET i == Least(ResetMatches(fileName))
             target == SubSeq(fileName, i + 6, Len(fileName) - 7)
         IN ResetInfo(IF target = <<>> THEN Root ELSE target)

\* s.includes(p) for a string p
IncludesString(s, p) ==
    \E i \in 1..Len(s) : i + Len(p) - 1 <= Len(s) /\ SubSeq(s, i, i + Len(p) - 1) = p

RouteFileInfo(filePath, fileType, resetInfo) ==
    [filePath |-> filePath, fileType |-> fileType, resetInfo |-> resetInfo]

\* the chain of startsWith tests of findPageInfo; "" for no route file
FileTypeOf(file) ==
    IF StartsWith(file, <<"+", "p", "a", "g", "e", ".", "s", "v", "e", "l", "t", "e">>)
        THEN "page"
    ELSE IF StartsWith(file, <<"+", "p", "a", "g", "e", ".", "t", "s">>)
        THEN "pageClient"
    ELSE IF StartsWith(file, <<"+", "p", "a", "g", "e", ".", "s", "e", "r", "v", "e", "r", ".", "t", "s">>)
        THEN "pageServer"
    ELSE IF StartsWith(file, <<"+", "s", "e", "r", "v", "e", "r", ".", "t", "s">>)
        THEN "server"
    ELSE IF StartsWith(file, <<"+", "l", "a", "y", "o", "u", "t", ".", "s", "v", "e", "l", "t", "e">>)
        THEN "layout"
    ELSE IF StartsWith(file, <<"+", "l", "a", "y", "o", "u", "t", ".", "t", "s">>)
        THEN "layoutClient"
    ELSE IF StartsWith(file, <<"+", "l", "a", "y", "o", "u", "t", ".", "s", "e", "r", "v", "e", "r", ".", "t", "s">>)
        THEN "layoutServer"
    ELSE IF StartsWith(file, <<"+", "e", "r", "r", "o", "r", ".", "s", "v", "e", "l", "t", "e">>)
        THEN "error"
    ELSE ""

\* the loop of findPageInfo over the listing, from entry i on
RECURSIVE PageInfoFrom(_, _, _)
PageInfoFrom(dir, listing, i) ==
    IF i > Len(listing) THEN <<>>
    ELSE LET file == listing[i]
             filePath == dir \o <<file>>
             more == PageInfoFrom(dir, listing, i + 1)
         IN IF ~StartsWith(file, <<"+">>) THEN more
            ELSE IF IncludesString(file, PagePrefix)
            THEN <<RouteFileInfo(filePath, "page", parseResetInfo(file))>> \o more
            ELSE IF FileTypeOf(file) # ""
            THEN <<RouteFileInfo(filePath, FileTypeOf(file), NoResetInfo)>> \o more
            ELSE more

\* RoutesProvider.findPageInfo
findPageInfo(dir) == PageInfoFrom(dir, readdir(dir), 1)

\* new RouteItem(...): the fields the provider reads back
RouteItem(label, routePath, filePath, children, routeType, isHierarchical, resetInfo, fileType) ==
    [label |-> label, routePath |-> routePath, filePath |-> filePath,
     children |-> children, routeType |-> routeType,
     isHierarchical |-> isHierarchical, resetInfo |-> resetInfo,
     fileType |-> fileType]

\* the separator path.join writes on the platform
Sep == IF platform = "win32" THEN "\\" ELSE "/"

\* path.join(basePath, entry) for the route path
JoinRoutePath(basePath, entry) ==
    IF basePath = <<>> THEN entry ELSE basePath \o <<Sep>> \o entry

\* entries.sort(compare): a stable insertion of x into a sorted prefix
RECURSIVE InsertSorted(_, _, _)
InsertSorted(sorted, x, st) ==
    IF sorted = <<>> THEN <<x>>
    ELSE IF compareRoutes(sorted[Len(sorted)], x, st) <= 0 THEN Append(sorted, x)
    ELSE Append(InsertSorted(SubSeq(sorted, 1, Len(sorted) - 1), x, st),
                sorted[Len(sorted)])

RECURSIVE SortEntries(_, _)
SortEntries(entries, st) ==
    IF entries = <<>> THEN <<>>
    ELSE InsertSorted(SortEntries(SubSeq(entries, 1, Len(entries) - 1), st),
                      entries[Len(entries)], st)

\* path.basename(filePath)
basename(filePath) == filePath[Len(filePath)]

\* one RouteItem per route file of a directory; the label is the file's
\* base name where byBasename, else `label`
FileItems(fileInfos, byBasename, label, routePath, routeType, isHierarchical) ==
    [k \in 1..Len(fileInfos) |->
        RouteItem(IF byBasename THEN basename(fileInfos[k].filePath) ELSE label,
                  routePath, fileInfos[k].filePath, <<>>, routeType,
                  isHierarchical, fileInfos[k].resetInfo, fileInfos[k].fileType)]

RECURSIVE buildRoutesTree(_, _)
RECURSIVE BuildEntries(_, _, _, _)

\* a slip: the directory node is pushed without the test on its children
BuildEntryUnconditional(dir, basePath, entry) ==
    LET fullPath == dir \o <<entry>>
        routePath == JoinRoutePath(basePath, entry)
        routeType == determineRouteType(entry)
        dirFileInfos == findPageInfo(fullPath)
        children == buildRoutesTree(fullPath, routePath)
        routeFiles == FileItems(dirFileInfos, ~flatView, routePath, routePath,
                                routeType, ~flatView)
    IN IF flatView THEN routeFiles \o children
       ELSE <<RouteItem(entry, routePath,
                 IF dirFileInfos = <<>> THEN <<>> ELSE dirFileInfos[1].filePath,
                 routeFiles \o children, routeType, TRUE,
                 IF dirFileInfos = <<>> THEN NoResetInfo
                 ELSE dirFileInfos[1].resetInfo,
                 IF dirFileInfos = <<>> THEN "page"
                 ELSE dirFileInfos[1].fileType)>>

\* what one directory entry adds to `routes`
BuildEntry(dir, basePath, entry) ==
    LET fullPath == dir \o <<entry>>
        routePath == JoinRoutePath(basePath, entry)
        routeType == determineRouteType(entry)
        dirFileInfos == findPageInfo(fullPath)
        children == buildRoutesTree(fullPath, routePath)
        routeFiles == FileItems(dirFileInfos, ~flatView, routePath, routePath,
                                routeType, ~flatView)
    IN IF flatView THEN routeFiles \o children
       ELSE IF Len(routeFiles) > 0 \/ Len(children) > 0
       THEN <<RouteItem(entry, routePath,
                 IF dirFileInfos = <<>> THEN <<>> ELSE dirFileInfos[1].filePath,
                 routeFiles \o children, routeType, TRUE,
                 IF dirFileInfos = <<>> THEN NoResetInfo
                 ELSE dirFileInfos[1].resetInfo,
                 IF dirFileInfos = <<>> THEN "page"
                 ELSE dirFileInfos[1].fileType)>>
       ELSE <<>>

\* the loop over the sorted entries, directories only
BuildEntries(dir, basePath, entries, i) ==
    IF i > Len(entries) THEN <<>>
    ELSE IF (dir \o <<entries[i]>>) \in dirs
    THEN BuildEntry(dir, basePath, entries[i])
             \o BuildEntries(dir, basePath, entries, i + 1)
    ELSE BuildEntries(dir, basePath, entries, i + 1)

\* RoutesProvider.buildRoutesTree
buildRoutesTree(dir, basePath) ==
    LET entries ==
            SortEntries(SelectSeq(readdir(dir),
                                  LAMBDA file : ~StartsWith(file, <<".">>)),
                        sortingType)
        rootItems ==
            IF basePath = <<>>
            THEN FileItems(findPageInfo(dir), FALSE, <<"/">>, <<"/">>, "static",
                           ~flatView)
            ELSE <<>>
    IN rootItems \o BuildEntries(dir, basePath, entries, 1)

(***************************************************************************)
(* RoutesProvider.flattenRoutes.                                           *)
(***************************************************************************)
\* str.split(c) for a one-character separator: every piece, empty ones too
RECURSIVE SplitAt(_, _, _)
SplitAt(str, c, piece) ==
    IF str = <<>> THEN <<piece>>
    ELSE IF Head(str) = c THEN <<piece>> \o SplitAt(Tail(str), c, <<>>)
    ELSE SplitAt(Tail(str), c, Append(piece, Head(str)))

\* segments.slice(0, 2).join("/")
SubDirOf(segments) ==
    IF Len(segments) > 1 THEN segments[1] \o <<"/">> \o segments[2] ELSE <<>>

Spacer == RouteItem(<<>>, <<>>, <<>>, <<>>, "spacer", FALSE, NoResetInfo, "page")
Divider(section) ==
    RouteItem(section, <<>>, <<>>, <<>>, "divider", FALSE, NoResetInfo, "page")

\* the closure state of flattenRoutes: the Map and lastSubDirectory
NoGroups == [groups |-> <<>>, lastSubDirectory |-> <<>>]

\* routeGroups as the sequence of its [key, items] pairs; the index of key
KeyIndex(groups, key) == {k \in 1..Len(groups) : groups[k].key = key}

PushTo(groups, key, item) ==
    [k \in 1..Len(groups) |->
        IF groups[k].key = key
        THEN [key |-> key, items |-> Append(groups[k].items, item)]
        ELSE groups[k]]

RECURSIVE processRoute(_, _)
RECURSIVE ProcessChildren(_, _, _)

\* a slip: the children of an item are not processed
processRouteTopOnly(item, st) ==
    LET segments == SplitAt(item.routePath, "\\", <<>>)
        topLevel == IF segments[1] = <<>> THEN Root ELSE segments[1]
        subDir == SubDirOf(segments)
        withKey == IF KeyIndex(st.groups, topLevel) = {}
                   THEN Append(st.groups, [key |-> topLevel, items |-> <<>>])
                   ELSE st.groups
        withItem ==
            PushTo(withKey, topLevel,
                   RouteItem(item.routePath, item.routePath, item.filePath,
                             <<>>, item.routeType, FALSE, item.resetInfo, "page"))
    IN [groups |-> withItem, lastSubDirectory |-> st.lastSubDirectory]

\* processRoute(item) on the closure state st
processRoute(item, st) ==
    LET segments == SplitAt(item.routePath, "\\", <<>>)
        topLevel == IF segments[1] = <<>> THEN Root ELSE segments[1]
        subDir == SubDirOf(segments)
        withKey == IF KeyIndex(st.groups, topLevel) = {}
                   THEN Append(st.groups, [key |-> topLevel, items |-> <<>>])
                   ELSE st.groups
        withSpacer ==
            IF subDir # <<>> /\ subDir # st.lastSubDirectory
                  /\ st.lastSubDirectory # <<>>
            THEN PushTo(withKey, topLevel, Spacer)
            ELSE withKey
        withItem ==
            PushTo(withSpacer, topLevel,
                   RouteItem(item.routePath, item.routePath, item.filePath,
                             <<>>, item.routeType, FALSE, item.resetInfo, "page"))
        last == IF subDir # <<>> THEN subDir ELSE st.lastSubDirectory
    IN ProcessChildren(item.children, 1,
                       [groups |-> withItem, lastSubDirectory |-> last])

\* items.forEach(processRoute) from item i on
ProcessChildren(items, i, st) ==
    IF i > Len(items) THEN st
    ELSE ProcessChildren(items, i + 1, processRoute(items[i], st))

\* Array.from(keys).sort(): the keys in code-unit order
RECURSIVE SortKeys(_)
SortKeys(keys) ==
    IF keys = {} THEN <<>>
    ELSE LET least == CHOOSE k \in keys :
                        \A o \in keys : CodeUnitCompare(k, o) <= 0
         IN <<least>> \o SortKeys(keys \ {least})

RECURSIVE EmitSections(_, _, _)
EmitSections(groups, sections, i) ==
    IF i > Len(sections) THEN <<>>
    ELSE <<Divider(sections[i])>>
            \o groups[Least(KeyIndex(groups, sections[i]))].items
            \o EmitSections(groups, sections, i + 1)

flattenRoutes(routeList) ==
    LET groups == ProcessChildren(routeList, 1, NoGroups).groups
        sortedGroups == SortKeys({groups[k].key : k \in 1..Len(groups)})
    IN EmitSections(groups, sortedGroups, 1)

(***************************************************************************)
(* The debounced refresh on active-editor changes, search and clearSearch. *)
(* Time passes in ticks of half the delay; a timer that is due runs before *)
(* any other callback and before time passes on.                           *)
(***************************************************************************)
\* setTimeout(..., 500)
Delay == 500
TickMs == Delay \div 2

\* how long the provider is observed, and how many commands the user runs
MaxTicks == 6
MaxCommands == 2

\* what the user types into the input box; Escape gives undefined
SearchInputs == {<<>>, <<"a">>, <<"A">>}
Cancelled == <<"-">>

\* String.prototype.toLowerCase over the letters typed
toLowerCase(s) == [i \in 1..Len(s) |-> IF s[i] = "A" THEN "a" ELSE s[i]]

NoTimerDue == \A due \in timers : due > now

\* this.refresh() called at the present time
Refresh(cause) ==
    refreshes \cup {[at |-> now, cause |-> cause, searchPattern |-> searchPattern]}

\* a slip: the pending timer is not cleared before the new one is set
EditorChangesNoClear ==
    /\ NoTimerDue
    /\ timers' = timers \cup {now + Delay}
    /\ timeout' = now + Delay
    /\ editorEvents' = editorEvents \cup {now}
    /\ UNCHANGED <<searchPattern, inFlight, now, commands, refreshes>>
    /\ UNCHANGED <<varsResolver, varsClassify, varsMatcher, varsCompare, varsBuild,
                   varsTasks>>

\* the onDidChangeActiveTextEditor listener of routesProvider.ts
EditorChanges ==
    /\ NoTimerDue
    /\ timers' = (IF timeout # Undefined THEN timers \ {timeout} ELSE timers)
                    \cup {now + Delay}
    /\ timeout' = now + Delay
    /\ editorEvents' = editorEvents \cup {now}
    /\ UNCHANGED <<searchPattern, inFlight, now, commands, refreshes>>
    /\ UNCHANGED <<varsResolver, varsClassify, varsMatcher, varsCompare, varsBuild,
                   varsTasks>>

\* the listener of the provider that returns early in search mode
EditorChangesUnlessSearching ==
    /\ NoTimerDue
    /\ IF searchPattern # <<>>
       THEN UNCHANGED <<timers, timeout>>
       ELSE /\ timers' = (IF timeout # Undefined THEN timers \ {timeout}
                           ELSE timers) \cup {now + Delay}
            /\ timeout' = now + Delay
    /\ editorEvents' = editorEvents \cup {now}
    /\ UNCHANGED <<searchPattern, inFlight, now, commands, refreshes>>
    /\ UNCHANGED <<varsResolver, varsClassify, varsMatcher, varsCompare, varsBuild,
                   varsTasks>>

\* a timer is due: its callback calls this.refresh()
TimerFires ==
    /\ \E due \in timers :
          /\ due <= now
          /\ timers' = timers \ {due}
    /\ refreshes' = Refresh("editor")
    /\ UNCHANGED <<searchPattern, timeout, inFlight, now, editorEvents, commands>>
    /\ UNCHANGED <<varsResolver, varsClassify, varsMatcher, varsCompare, varsBuild,
                   varsTasks>>

\* time passes
Tick ==
    /\ NoTimerDue
    /\ now < MaxTicks * TickMs
    /\ now' = now + TickMs
    /\ UNCHANGED <<searchPattern, timeout, timers, inFlight, editorEvents,
                   commands, refreshes>>
    /\ UNCHANGED <<varsResolver, varsClassify, varsMatcher, varsCompare, varsBuild,
                   varsTasks>>

\* search(): the input box settles; the call goes on to updateSearchContext
Search(searchInput) ==
    /\ NoTimerDue
    /\ commands < MaxCommands
    /\ commands' = commands + 1
    /\ IF searchInput = Cancelled
       THEN UNCHANGED <<searchPattern, inFlight>>
       ELSE /\ searchPattern' = toLowerCase(searchInput)
            /\ inFlight' = Append(inFlight, "search")
    /\ UNCHANGED <<timeout, timers, now, editorEvents, refreshes>>
    /\ UNCHANGED <<varsResolver, varsClassify, varsMatcher, varsCompare, varsBuild,
                   varsTasks>>

\* clearSearch() up to its await
ClearSearch ==
    /\ NoTimerDue
    /\ commands < MaxCommands
    /\ commands' = commands + 1
    /\ searchPattern' = <<>>
    /\ inFlight' = Append(inFlight, "clearSearch")
    /\ UNCHANGED <<timeout, timers, now, editorEvents, refreshes>>
    /\ UNCHANGED <<varsResolver, varsClassify, varsMatcher, varsCompare, varsBuild,
                   varsTasks>>

\* await updateSearchContext(...) settles; the call ends with this.refresh()
ContextUpdated ==
    /\ NoTimerDue
    /\ inFlight # <<>>
    /\ inFlight' = Tail(inFlight)
    /\ refreshes' = Refresh(Head(inFlight))
    /\ UNCHANGED <<searchPattern, timeout, timers, now, editorEvents, commands>>
    /\ UNCHANGED <<varsResolver, varsClassify, varsMatcher, varsCompare, varsBuild,
                   varsTasks>>

(***************************************************************************)
(* The classifiers, the matcher test and the comparator applied to inputs  *)
(* drawn from bounded sets.                                                *)
(***************************************************************************)
\* entry names: every string over the bracket characters up to MaxNameLen
EntryAlphabet == {"(", ")", "[", "]", ".", "=", "a"}
MaxNameLen == 6
EntryNames == UNION {[1..n -> EntryAlphabet] : n \in 1..MaxNameLen}

\* segments handed to the matcher test: every string over a digit, a
\* letter, the dot and the dash up to MaxValueLen, and the long formats
ValueAlphabet == {"1", "a", ".", "-"}
MaxValueLen == 3
DateValue == <<"2", "0", "2", "4", "-", "0", "1", "-", "0", "5">>
UuidValue ==
    <<"1", "2", "3", "e", "4", "5", "6", "7", "-", "e", "8", "9", "b", "-",
      "1", "2", "d", "3", "-", "a", "4", "5", "6", "-",
      "4", "2", "6", "6", "1", "4", "1", "7", "4", "0", "0", "0">>
MatchValues ==
    UNION {[1..n -> ValueAlphabet] : n \in 0..MaxValueLen}
        \cup { DateValue, [DateValue EXCEPT ![5] = "1"],
               [DateValue EXCEPT ![1] = "a"], Append(DateValue, "1"),
               UuidValue, [UuidValue EXCEPT ![4] = "E"],
               [UuidValue EXCEPT ![4] = "g"], [UuidValue EXCEPT ![9] = "1"],
               Tail(UuidValue) }

\* "[p=" matcher "]"
MatcherDir(matcher) == <<"[", "p", "=">> \o matcher \o <<"]">>
CustomMatcher == <<"c", "u", "s", "t", "o", "m">>
ConstructorMatcher == <<"c", "o", "n", "s", "t", "r", "u", "c", "t", "o", "r">>
MatchPatterns ==
    {MatcherDir(m) : m \in PatternKeys \cup {CustomMatcher, ConstructorMatcher}}

\* names handed to the comparator, some of every kind
SortNames ==
    { <<"a">>, <<"b">>, <<"a", "2">>, <<"a", "1", "0">>, <<"(", "g", ")">>,
      <<"a", "1">>, <<"2", "a">>, <<"1", "0", "a">>,
      <<"a", "1", "b">>, <<"a", "1", "0", "b">>,
      <<"[", "a", "1", "]">>, <<"[", "a", "1", "0", "]">>,
      <<"[", "a", "]">>, <<"[", "c", "]">>, <<"[", "b", "=", "c", "]">>,
      <<"[", "[", "a", "]", "]">>, <<"[", "[", "c", "]", "]">>,
      <<"[", ".", ".", ".", "a", "]">>, <<"[", ".", ".", ".", "c", "]">> }

IdleResolver ==
    /\ hasWorkspace = FALSE
    /\ dirs = {}
    /\ files = {}
    /\ readdirOrder = "asc"
    /\ pc = "idle"
    /\ request = NoRequest
    /\ result = NoResult

IdleClassify ==
    /\ entryName = <<>>
    /\ builderType = "none"
    /\ resolverType = "none"

IdleMatcher ==
    /\ matchValue = <<>>
    /\ matchPattern = <<>>
    /\ accepted = "none"

IdleCompare ==
    /\ routeA = <<>>
    /\ routeB = <<>>
    /\ sortingType = "natural"
    /\ order = "none"

\* no call made yet, and the items a call returned
NotBuilt == [built |-> FALSE, items |-> <<>>]
Built(items) == [built |-> TRUE, items |-> items]

IdleBuild ==
    /\ flatView = FALSE
    /\ platform = "posix"
    /\ routes = NotBuilt
    /\ previous = NotBuilt
    /\ flatList = NotBuilt

InitClassify ==
    /\ entryName \in EntryNames
    /\ builderType = "none"
    /\ resolverType = "none"
    /\ IdleResolver /\ IdleMatcher /\ IdleCompare /\ IdleBuild /\ IdleTasks /\ IdleTimer

\* buildRoutesTree classifies the entry
DetermineRouteType ==
    /\ builderType = "none"
    /\ builderType' = determineRouteType(entryName)
    /\ UNCHANGED <<entryName, resolverType>>
    /\ UNCHANGED <<varsResolver, varsMatcher, varsCompare, varsBuild, varsTasks,
                   varsTimer>>

\* findMatchingSegments classifies the entry
GetRouteType ==
    /\ resolverType = "none"
    /\ resolverType' = getRouteType(entryName)
    /\ UNCHANGED <<entryName, builderType>>
    /\ UNCHANGED <<varsResolver, varsMatcher, varsCompare, varsBuild, varsTasks,
                   varsTimer>>

InitMatcher ==
    /\ matchValue \in MatchValues
    /\ matchPattern \in MatchPatterns
    /\ accepted = "none"
    /\ IdleResolver /\ IdleClassify /\ IdleCompare /\ IdleBuild /\ IdleTasks /\ IdleTimer

\* the matcher test is applied to the segment
IsParameterMatchGeneric ==
    /\ accepted = "none"
    /\ accepted' = isParameterMatchGeneric(matchValue, matchPattern)
    /\ UNCHANGED <<matchValue, matchPattern>>
    /\ UNCHANGED <<varsResolver, varsClassify, varsCompare, varsBuild, varsTasks,
                   varsTimer>>

InitCompare ==
    /\ routeA \in SortNames
    /\ routeB \in SortNames
    /\ sortingType \in {"natural", "basic"}
    /\ order = "none"
    /\ IdleResolver /\ IdleClassify /\ IdleMatcher /\ IdleBuild /\ IdleTasks /\ IdleTimer

\* the sort calls the comparator on the pair
CompareRoutes ==
    /\ order = "none"
    /\ order' = Sign(compareRoutes(routeA, routeB, sortingType))
    /\ UNCHANGED <<routeA, routeB, sortingType>>
    /\ UNCHANGED <<varsResolver, varsClassify, varsMatcher, varsBuild, varsTasks,
                   varsTimer>>

\* the provider is constructed in a workspace: the view mode and the sorting
\* setting come from the configuration
InitBuild ==
    /\ hasWorkspace = TRUE
    /\ dirs = {}
    /\ files = {}
    /\ readdirOrder \in {"asc", "desc"}
    /\ pc = "idle"
    /\ request = NoRequest
    /\ result = NoResult
    /\ flatView \in BOOLEAN
    /\ platform \in {"posix", "win32"}
    /\ routes = NotBuilt
    /\ previous = NotBuilt
    /\ flatList = NotBuilt
    /\ routeA = <<>>
    /\ routeB = <<>>
    /\ sortingType \in {"natural", "basic"}
    /\ order = "none"
    /\ IdleClassify /\ IdleMatcher /\ IdleTasks /\ IdleTimer

\* a slip: the build leaves the view mode switched
BuildRoutesTreeSwitchingView ==
    /\ hasWorkspace
    /\ <<>> \in dirs
    /\ ~previous.built
    /\ ~flatList.built
    /\ previous' = routes
    /\ routes' = Built(buildRoutesTree(<<>>, <<>>))
    /\ flatView' = ~flatView
    /\ UNCHANGED <<platform, flatList>>
    /\ UNCHANGED <<varsResolver, varsClassify, varsMatcher, varsCompare, varsTasks,
                   varsTimer>>

\* getChildren builds the tree of the routes directory (twice at most)
BuildRoutesTree ==
    /\ hasWorkspace
    /\ <<>> \in dirs
    /\ ~previous.built
    /\ ~flatList.built
    /\ previous' = routes
    /\ routes' = Built(buildRoutesTree(<<>>, <<>>))
    /\ UNCHANGED <<flatView, platform, flatList>>
    /\ UNCHANGED <<varsResolver, varsClassify, varsMatcher, varsCompare, varsTasks,
                   varsTimer>>

\* the built tree is flattened
FlattenRoutes ==
    /\ routes.built
    /\ ~flatList.built
    /\ flatList' = Built(flattenRoutes(routes.items))
    /\ UNCHANGED <<flatView, platform, routes, previous>>
    /\ UNCHANGED <<varsResolver, varsClassify, varsMatcher, varsCompare, varsTasks,
                   varsTimer>>

\* findMatchingRoute is about to be called on a routes directory whose
\* entries are of every kind
InitScores ==
    /\ hasWorkspace = TRUE
    /\ \E shape \in [ScoreDirNames -> Shapes] :
          /\ \A n \in ScoreDirNames : shape[n] \in ShapesOf(n)
          /\ dirs = TreeDirs(shape)
          /\ files = TreeFiles(shape)
    /\ readdirOrder \in {"asc", "desc"}
    /\ pc = "idle"
    /\ request = NoRequest
    /\ result = NoResult
    /\ IdleClassify /\ IdleMatcher /\ IdleCompare /\ IdleBuild /\ IdleTasks /\ IdleTimer

\* findMostSpecificPage is about to be called on a directory that holds
\* any of the route files
InitPage ==
    /\ hasWorkspace = TRUE
    /\ dirs = {<<>>}
    /\ files \in SUBSET {<<n>> : n \in PageFileNames}
    /\ readdirOrder \in {"asc", "desc"}
    /\ pc = "idle"
    /\ request = NoRequest
    /\ result = NoResult
    /\ IdleClassify /\ IdleMatcher /\ IdleCompare /\ IdleBuild /\ IdleTasks /\ IdleTimer

\* two calls are about to be made on an unchanged routes directory
InitTasks ==
    /\ hasWorkspace = TRUE
    /\ \E S \in TaskTrees :
          /\ dirs = TreeDirs(TaskShape(S))
          /\ files = TreeFiles(TaskShape(S))
    /\ readdirOrder \in {"asc", "desc"}
    /\ pc = "idle"
    /\ request = NoRequest
    /\ result = NoResult
    /\ \E r1 \in Requests : \E r2 \in FirstRequests :
          tasks = [t \in TaskIds |-> IdleTask(IF t = 1 THEN r1 ELSE r2)]
    /\ IdleClassify /\ IdleMatcher /\ IdleCompare /\ IdleBuild /\ IdleTimer

\* findMatchingRoute is about to be called on a routes directory that holds
\* a static directory "a" with optional directories and a page inside, and
\* dynamic and static directories with a page beside it
OrderTopNames == {DynamicP, DynamicQ, Static1}
OrderInnerNames == {OptionalP, OptionalQ}

InitOrder ==
    /\ hasWorkspace = TRUE
    /\ \E T \in SUBSET OrderTopNames : \E O \in SUBSET OrderInnerNames :
       \E inner \in SUBSET {PageSvelte} :
          /\ dirs = {<<>>, <<StaticA>>} \cup {<<n>> : n \in T}
                        \cup {<<StaticA, n>> : n \in O}
          /\ files = {<<n, PageSvelte>> : n \in T}
                        \cup {<<StaticA, n, PageSvelte>> : n \in O}
                        \cup {<<StaticA, n>> : n \in inner}
    /\ readdirOrder \in {"asc", "desc"}
    /\ pc = "idle"
    /\ request = NoRequest
    /\ result = NoResult
    /\ IdleClassify /\ IdleMatcher /\ IdleCompare /\ IdleBuild /\ IdleTasks /\ IdleTimer

\* the flat view is about to be built for a routes directory that holds any
\* of: a page of its own, and directories "a" and "(g)" with a page, with a
\* directory "a" holding a page, or with both
FlatTopNames == {StaticA, GroupG}
FlatShapes == {"absent", "page", "nested", "both"}

InitFlat ==
    /\ hasWorkspace = TRUE
    /\ \E shape \in [FlatTopNames -> FlatShapes] : \E root \in SUBSET {<<PageSvelte>>} :
          /\ dirs = {<<>>}
                \cup {<<n>> : n \in {k \in FlatTopNames : shape[k] # "absent"}}
                \cup {<<n, StaticA>> :
                         n \in {k \in FlatTopNames : shape[k] \in {"nested", "both"}}}
          /\ files = root
                \cup {<<n, PageSvelte>> :
                         n \in {k \in FlatTopNames : shape[k] \in {"page", "both"}}}
                \cup {<<n, StaticA, PageSvelte>> :
                         n \in {k \in FlatTopNames : shape[k] \in {"nested", "both"}}}
    /\ readdirOrder \in {"asc", "desc"}
    /\ pc = "idle"
    /\ request = NoRequest
    /\ result = NoResult
    /\ flatView = TRUE
    /\ platform \in {"posix", "win32"}
    /\ routes = NotBuilt
    /\ previous = NotBuilt
    /\ flatList = NotBuilt
    /\ routeA = <<>>
    /\ routeB = <<>>
    /\ sortingType \in {"natural", "basic"}
    /\ order = "none"
    /\ IdleClassify /\ IdleMatcher /\ IdleTasks /\ IdleTimer

\* a provider was just constructed
InitTimer ==
    /\ IdleResolver /\ IdleClassify /\ IdleMatcher /\ IdleCompare /\ IdleBuild
    /\ IdleTasks /\ IdleTimer

\* findMatchingRoute is about to be called on a routes directory that holds
\* any of a static, a dynamic and a rest directory with a page, each
\* directly or inside the group directory
GroupedNames == {StaticA, DynamicP, RestP}
GroupedDirs == {<<n>> : n \in GroupedNames} \cup {<<GroupG, n>> : n \in GroupedNames}

InitGroups ==
    /\ hasWorkspace = TRUE
    /\ \E R \in SUBSET GroupedDirs :
          /\ dirs = {<<>>} \cup R \cup {<<GroupG>> : d \in {r \in R : Len(r) = 2}}
          /\ files = {d \o <<PageSvelte>> : d \in R}
    /\ readdirOrder \in {"asc", "desc"}
    /\ pc = "idle"
    /\ request = NoRequest
    /\ result = NoResult
    /\ IdleClassify /\ IdleMatcher /\ IdleCompare /\ IdleBuild /\ IdleTasks /\ IdleTimer

\* one findMatchingRoute call is about to be made, and the tree about to be
\* built and flattened, on an unchanged routes directory
InitCall ==
    /\ hasWorkspace = TRUE
    /\ \E S \in TaskTrees :
          /\ dirs = TreeDirs(TaskShape(S))
          /\ files = TreeFiles(TaskShape(S))
    /\ readdirOrder = "asc"
    /\ pc = "idle"
    /\ request = NoRequest
    /\ result = NoResult
    /\ \E r \in SegmentRequests \cup {<<"/">>} :
          tasks = [t \in TaskIds |-> IdleTask(IF t = 1 THEN r ELSE NoRequest)]
    /\ flatView \in BOOLEAN
    /\ platform = "posix"
    /\ routes = NotBuilt
    /\ previous = NotBuilt
    /\ flatList = NotBuilt
    /\ IdleClassify /\ IdleMatcher /\ IdleCompare /\ IdleTimer

(***************************************************************************)
(* Specifications.                                                         *)
(***************************************************************************)
Init ==
    /\ InitResolver
    /\ IdleClassify /\ IdleMatcher /\ IdleCompare /\ IdleBuild /\ IdleTasks /\ IdleTimer

Next ==
    \/ MkRoutesDir
    \/ \E parent \in dirs : \E name \in DirNames : Mkdir(parent, name)
    \/ \E parent \in dirs : \E name \in FileNames : WriteFile(parent, name)
    \/ \E relativePath \in Requests : FindMatchingRoute(relativePath)
    \/ Return

Spec == Init /\ [][Next]_vars

\* the resolver on a routes tree of static, dynamic and matcher directories
NextParams ==
    \/ MkRoutesDir
    \/ \E parent \in dirs : \E name \in ParamDirNames : Mkdir(parent, name)
    \/ \E parent \in dirs : \E name \in FileNames : WriteFile(parent, name)
    \/ \E relativePath \in Requests : FindMatchingRoute(relativePath)
    \/ Return

SpecParams == Init /\ [][NextParams]_vars

\* the resolver on a routes tree of static, dynamic and rest directories
NextRest ==
    \/ MkRoutesDir
    \/ \E parent \in dirs : \E name \in RestDirNames : Mkdir(parent, name)
    \/ \E parent \in dirs : \E name \in FileNames : WriteFile(parent, name)
    \/ \E relativePath \in Requests : FindMatchingRoute(relativePath)
    \/ Return

SpecRest == Init /\ [][NextRest]_vars

\* the resolver on a routes directory with entries of every kind
NextScores ==
    \/ \E relativePath \in SegmentRequests : FindMatchingRoute(relativePath)
    \/ Return

SpecScores == InitScores /\ [][NextScores]_vars

\* the resolver on a routes directory whose listing order is not fixed
NextOrder ==
    \/ \E relativePath \in SegmentRequests : FindMatchingRoute(relativePath)
    \/ Return
    \/ ReaddirOrderChanges

SpecOrder == InitOrder /\ [][NextOrder]_vars

\* the resolver on a routes directory with routes inside a group directory
NextGroups ==
    \/ \E relativePath \in SegmentRequests : FindMatchingRoute(relativePath)
    \/ Return

SpecGroups == InitGroups /\ [][NextGroups]_vars

\* the tree builder and the flattening on a routes tree of static and group
\* directories with pages and layout-reset pages
NextBuild ==
    \/ MkRoutesDir
    \/ \E parent \in dirs : \E name \in BuildDirNames : Mkdir(parent, name)
    \/ \E parent \in dirs : \E name \in BuildFileNames : WriteFile(parent, name)
    \/ BuildRoutesTree
    \/ FlattenRoutes

SpecBuild == InitBuild /\ [][NextBuild]_vars

\* the flat view of a routes directory with two top-level directories
NextFlat ==
    \/ BuildRoutesTree
    \/ FlattenRoutes

SpecFlat == InitFlat /\ [][NextFlat]_vars

\* active-editor changes and the refresh timer
NextDebounce ==
    \/ EditorChanges
    \/ TimerFires
    \/ Tick

SpecDebounce == InitTimer /\ [][NextDebounce]_vars

\* the same with the listener that returns early in search mode, and the
\* search and clearSearch commands
NextSearch ==
    \/ EditorChangesUnlessSearching
    \/ TimerFires
    \/ Tick
    \/ \E searchInput \in SearchInputs \cup {Cancelled} : Search(searchInput)
    \/ ClearSearch
    \/ ContextUpdated

SpecSearch == InitTimer /\ [][NextSearch]_vars

\* two findMatchingRoute calls interleaved at their await points
NextTasks ==
    \/ \E t \in TaskIds : StartCall(t)
    \/ \E t \in TaskIds : ReaddirSettles(t)
    \/ \E t \in TaskIds : OptionalScanStep(t)
    \/ \E t \in TaskIds : FirstPassStep(t)
    \/ \E t \in TaskIds : FirstPassResume(t)
    \/ \E t \in TaskIds : SecondPassStep(t)
    \/ \E t \in TaskIds : SecondPassResume(t)

SpecTasks == InitTasks /\ [][NextTasks]_vars

NextPage == FindMostSpecificPage

SpecPage == InitPage /\ [][NextPage]_vars

NextClassify ==
    \/ DetermineRouteType
    \/ GetRouteType

SpecClassify == InitClassify /\ [][NextClassify]_vars

NextMatcher == IsParameterMatchGeneric

SpecMatcher == InitMatcher /\ [][NextMatcher]_vars

NextCompare == CompareRoutes

SpecCompare == InitCompare /\ [][NextCompare]_vars

\* the steps of a findMatchingRoute call between its await points
CallSteps ==
    \/ \E t \in TaskIds : StartCall(t)
    \/ \E t \in TaskIds : ReaddirSettles(t)
    \/ \E t \in TaskIds : OptionalScanStep(t)
    \/ \E t \in TaskIds : FirstPassStep(t)
    \/ \E t \in TaskIds : FirstPassResume(t)
    \/ \E t \in TaskIds : SecondPassStep(t)
    \/ \E t \in TaskIds : SecondPassResume(t)

\* one call beside a build and a flattening, each of which runs to its end
\* in one step of the event loop; the event loop runs every continuation
\* of the call once the promise it awaits has settled
NextCall ==
    \/ CallSteps
    \/ BuildRoutesTree
    \/ FlattenRoutes

SpecCall == InitCall /\ [][NextCall]_vars /\ WF_vars(CallSteps)

(***************************************************************************)
(* Properties of the resolver (Spec, SpecParams, SpecRest).                *)
(***************************************************************************)
\* a call has settled in a workspace, so a routes directory path exists
Returned == pc = "returned" /\ hasWorkspace

\* the segments findMatchingRoute splits each request path into
SegmentsOf == [r \in Requests |-> SplitSegments(r, <<>>)]

\* the suffixes of a request's segments that are not empty
SuffixesOf ==
    [r \in Requests |->
        {Slice(SegmentsOf[r], k) : k \in 0..(Len(SegmentsOf[r]) - 1)}]

\* the segments of the settled request
ReqSegs == SegmentsOf[request]

\* the request was "/" or ""
RootRequest == request = <<"/">> \/ request = <<>>

\* the names of the directories directly inside d
ChildDirs(d) == {n \in DirNames : (d \o <<n>>) \in dirs}

\* the directory names of one kind
NamesOfKind(kind) == {n \in DirNames : getRouteType(n) = kind}
StaticNames == NamesOfKind("static")
DynamicNames == NamesOfKind("dynamic")
MatcherNames == NamesOfKind("matcher")
RestNames == NamesOfKind("rest")

ReqSuffixes == SuffixesOf[request]

\* what findMatchingSegments(d, rem) yields; for the routes directory and
\* the whole request this is the value the call settled with
ResolvedAt(d, rem) ==
    IF d = <<>> /\ rem = ReqSegs THEN result ELSE findMatchingSegments(d, rem)

\* child e of d yields a match for rem in one of the two passes
YieldsMatch(d, rem, e) ==
    \/ FirstPassAttempt(d, rem, e).match.tag = "file"
    \/ SecondPassAttempt(d, rem, e).match.tag = "file"

StaticBeatsDynamicAt(d, rem) ==
    LET s == rem[1]
        staticMatch == findMatchingSegments(d \o <<s>>, Tail(rem))
    IN ( /\ s \in StaticNames
         /\ (d \o <<s>>) \in dirs
         /\ staticMatch.tag = "file"
         /\ \E e \in DynamicNames :
              /\ (d \o <<e>>) \in dirs
              /\ findMatchingSegments(d \o <<e>>, Tail(rem)).tag = "file" )
       => /\ ResolvedAt(d, rem) = staticMatch
          /\ StartsWith(ResolvedAt(d, rem).path, d \o <<s>>)

\* C1: where a directory has a static child named like the current segment
\* and a dynamic child, and both lead to a terminal file for the remaining
\* segments, the resolution returns the file under the static child.
C1_StaticBeatsDynamic ==
    Returned =>
        \A rem \in ReqSuffixes : \A d \in dirs : StaticBeatsDynamicAt(d, rem)

\* C1 witness: /a was resolved to the file under a/ although [p]/ holds a
\* page as well
C1_Witness ==
    /\ Returned
    /\ request = <<"/", "a">>
    /\ <<DynamicP, PageSvelte>> \in files
    /\ result = File(<<StaticA, PageSvelte>>)

RestGreedyAt(d, rem) ==
    \A r \in RestNames :
        ( /\ (d \o <<r>>) \in dirs
          /\ findMostSpecificPage(d \o <<r>>).tag = "file"
          /\ \A e \in ChildDirs(d) \ {r} : ~YieldsMatch(d, rem, e) )
        => /\ ResolvedAt(d, rem) = findMostSpecificPage(d \o <<r>>)
           /\ ResolvedAt(d, rem).tag = "file"
           /\ Len(ResolvedAt(d, rem).path) = Len(d) + 2
           /\ StartsWith(ResolvedAt(d, rem).path, d \o <<r>>)

\* C2: with n >= 1 segments left at the parent of a rest directory that
\* holds a page, and no sibling yielding a match, the resolution returns
\* the file directly inside the rest directory, for every n.
C2_RestGreedy ==
    Returned =>
        \A rem \in ReqSuffixes : \A d \in dirs : RestGreedyAt(d, rem)

\* C2 witness: two segments were taken by [...p] at the routes directory
C2_Witness ==
    /\ Returned
    /\ Len(ReqSegs) = MaxSegs
    /\ result = File(<<RestP, PageSvelte>>)

\* D has no child directory but [[p]], which holds a page and no directory
OnlyOptionalChild(D) ==
    /\ D \in dirs
    /\ ChildDirs(D) = {OptionalP}
    /\ (D \o <<OptionalP, PageSvelte>>) \in files
    /\ ChildDirs(D \o <<OptionalP>>) = {}

\* the request names the static directory chain D, plus `extra` segments
RequestReaches(D, extra) ==
    /\ \A i \in 1..Len(D) : getRouteType(D[i]) = "static"
    /\ Len(ReqSegs) = Len(D) + extra
    /\ SubSeq(ReqSegs, 1, Len(D)) = D
    /\ D = <<>> /\ extra = 0 => RootRequest

\* C3 as claimed: for a directory D whose only child directory is [[p]]
\* with a page, the path to D and the path to D plus one segment both
\* resolve to a file inside [[p]].
C3_OptionalBothWays ==
    Returned =>
        \A D \in dirs : \A extra \in {0, 1} :
            (OnlyOptionalChild(D) /\ RequestReaches(D, extra))
                => /\ result.tag = "file"
                   /\ StartsWith(result.path, D \o <<OptionalP>>)

\* the terminal file the routes directory resolves to by the priority list
RootTerminal ==
    IF <<>> \notin dirs THEN Null
    ELSE IF existsSync(<<ServerJs>>) THEN File(<<ServerJs>>)
    ELSE IF existsSync(<<PageSvelte>>) THEN File(<<PageSvelte>>)
    ELSE Null

C5_NeverThrows == Returned => result.tag \in {"file", "null"}

\* the directories on the way to file F
ChainOf(F) == SubSeq(F, 1, Len(F) - 1)

\* the non-group names of a chain, in order
NonGroup(chain) == SelectSeq(chain, LAMBDA n : getRouteType(n) # "group")

\* C6 as claimed: when the only file is a terminal file under a chain of
\* static and group directories with a group among them, the request made
\* of the static names resolves to that file, also when the group is the
\* last directory of the chain.
C6_GroupZeroWidth ==
    Returned =>
        \A F \in files :
            ( /\ files = {F}
              /\ F[Len(F)] \in {PageSvelte, ServerJs}
              /\ \A i \in 1..(Len(F) - 1) :
                    getRouteType(F[i]) \in {"static", "group"}
              /\ \E i \in 1..(Len(F) - 1) : getRouteType(F[i]) = "group"
              /\ ReqSegs = NonGroup(ChainOf(F))
              /\ NonGroup(ChainOf(F)) = <<>> => RootRequest )
            => result = File(F)

MatcherGateAt(d, rem) ==
    LET m == ResolvedAt(d, rem)
    IN ( /\ \E e \in MatcherNames : (d \o <<e>>) \in dirs
         /\ m.tag = "file"
         /\ getRouteType(m.path[Len(d) + 1]) = "matcher" )
          => isParameterMatchGeneric(rem[1], m.path[Len(d) + 1]) = "true"

MatcherOrDynamicAt(d, rem) ==
    \A e \in DynamicNames :
        ( /\ Len(rem) = 1
          /\ (d \o <<MatcherInt>>) \in dirs
          /\ (d \o <<e>>) \in dirs
          /\ findMostSpecificPage(d \o <<MatcherInt>>).tag = "file"
          /\ findMostSpecificPage(d \o <<e>>).tag = "file"
          /\ \A o \in ChildDirs(d) \ {MatcherInt, e} : ~YieldsMatch(d, rem, o) )
        => LET chosen == IF TestInteger(rem[1]) THEN MatcherInt ELSE e
           IN /\ ResolvedAt(d, rem) = findMatchingSegments(d \o <<chosen>>, <<>>)
              /\ ResolvedAt(d, rem).tag = "file"
              /\ StartsWith(ResolvedAt(d, rem).path, d \o <<chosen>>)

\* C8: a matcher directory whose predicate rejects the current segment is
\* never the directory the result lies under at that level; with siblings
\* [p=integer] and [p] both holding a page, a numeric segment resolves
\* under the matcher directory and any other segment under the dynamic one.
C8_MatcherFallThrough ==
    Returned =>
        \A rem \in ReqSuffixes : \A d \in dirs :
            MatcherGateAt(d, rem) /\ MatcherOrDynamicAt(d, rem)

\* C8 witness: a non-numeric segment was resolved to the dynamic
\* directory's page although [p=integer]/ holds a page
C8_Witness ==
    /\ Returned
    /\ request = <<"/", "a">>
    /\ <<MatcherInt, PageSvelte>> \in files
    /\ result = File(<<DynamicP, PageSvelte>>)

(***************************************************************************)
(* Properties of the matcher test, the classifiers and the comparator.     *)
(***************************************************************************)
\* the matcher name between "[p=" and "]"
MatcherOf(pattern) == SubSeq(pattern, 4, Len(pattern) - 1)

\* the documented predicate named m; every other name accepts everything
DocumentedAccepts(m, v) ==
    CASE m = integer -> v # <<>> /\ \A i \in 1..Len(v) : v[i] \in Digits
      [] m = alpha -> v # <<>> /\ \A i \in 1..Len(v) : v[i] \in Letters
      [] m = alphanumeric ->
            v # <<>> /\ \A i \in 1..Len(v) : v[i] \in Letters \cup Digits
      [] m = date -> TestDate(v)
      [] m = uuid -> TestUuid(v)
      [] m = float ->
            /\ v # <<>>
            /\ v[Len(v)] \in Digits
            /\ \A i \in 1..Len(v) : v[i] \in Digits \cup {"."}
            /\ Cardinality({i \in 1..Len(v) : v[i] = "."}) <= 1
      [] OTHER -> TRUE

\* C7 as claimed: for a matcher directory [p=m] the test accepts a segment
\* exactly when the built-in predicate named m holds of it, and accepts
\* every segment when m is no built-in name.
C7_MatcherPredicates ==
    accepted # "none" =>
        accepted = IF DocumentedAccepts(MatcherOf(matchPattern), matchValue)
                   THEN "true" ELSE "false"

\* the kind the syntax of an entry name stands for
SyntacticKind(name) ==
    IF StartsWith(name, <<"(">>) /\ EndsWith(name, <<")">>) /\ Len(name) >= 2
        THEN "group"
    ELSE IF StartsWith(name, <<"[", ".", ".", ".">>) /\ EndsWith(name, <<"]">>)
        THEN "rest"
    ELSE IF StartsWith(name, <<"[", "[">>) /\ EndsWith(name, <<"]", "]">>)
             /\ Len(name) >= 4
        THEN "optional"
    ELSE IF StartsWith(name, <<"[">>) /\ EndsWith(name, <<"]">>)
             /\ IncludesChar(name, "=")
        THEN "matcher"
    ELSE IF StartsWith(name, <<"[">>) /\ EndsWith(name, <<"]">>)
             /\ Len(name) >= 2
        THEN "dynamic"
    ELSE "static"

\* a parameter or group name: no bracket, no "=", no dot
PlainName(s) ==
    s # <<>> /\ \A i \in 1..Len(s) : s[i] \notin {"(", ")", "[", "]", "=", "."}

\* the entry name is written in one of the six documented forms
WellFormed(name) ==
    LET n == Len(name)
        eqs == {i \in 1..n : name[i] = "="}
    IN \/ n >= 3 /\ name[1] = "(" /\ name[n] = ")" /\ PlainName(SubSeq(name, 2, n - 1))
       \/ StartsWith(name, <<"[", ".", ".", ".">>) /\ name[n] = "]"
            /\ PlainName(SubSeq(name, 5, n - 1))
       \/ StartsWith(name, <<"[", "[">>) /\ EndsWith(name, <<"]", "]">>)
            /\ PlainName(SubSeq(name, 3, n - 2))
       \/ n >= 5 /\ name[1] = "[" /\ name[n] = "]" /\ Cardinality(eqs) = 1
            /\ \A e \in eqs : /\ PlainName(SubSeq(name, 2, e - 1))
                              /\ PlainName(SubSeq(name, e + 1, n - 1))
       \/ n >= 3 /\ name[1] = "[" /\ name[n] = "]" /\ PlainName(SubSeq(name, 2, n - 1))
       \/ n >= 1 /\ \A i \in 1..n : name[i] \notin {"(", ")", "[", "]", "="}

\* C9 as claimed: determineRouteType and getRouteType both map every entry
\* name written in one of the six forms to the kind its syntax stands for,
\* hence to the same kind.
C9_ClassifiersAgree ==
    WellFormed(entryName) =>
        /\ builderType # "none" => builderType = SyntacticKind(entryName)
        /\ resolverType # "none" => resolverType = SyntacticKind(entryName)

\* the place of a kind in the claimed display order; groups have none
KindRank(kind) ==
    CASE kind = "static" -> 1
      [] kind = "matcher" -> 2
      [] kind = "dynamic" -> 3
      [] kind = "optional" -> 4
      [] kind = "rest" -> 5
      [] OTHER -> 0

\* C10 as claimed: two names of different kinds are ordered static before
\* matcher before dynamic before optional before rest, under both sorting
\* settings and whatever their text.
C10_KindPriority ==
    LET rankA == KindRank(SyntacticKind(routeA))
        rankB == KindRank(SyntacticKind(routeB))
    IN (order # "none" /\ rankA # 0 /\ rankB # 0 /\ rankA # rankB)
          => order = IF rankA < rankB THEN "before" ELSE "after"

(***************************************************************************)
(* Ordering inside one kind (SpecCompare).                                 *)
(***************************************************************************)
\* a and b are one name but for one digit run: a common prefix of i
\* characters, the run up to j in a and up to k in b, a common suffix
RunVariant(a, b, i, j, k) ==
    /\ i < j /\ j <= Len(a) /\ i < k /\ k <= Len(b)
    /\ SubSeq(a, 1, i) = SubSeq(b, 1, i)
    /\ Slice(a, j) = Slice(b, k)
    /\ AllIn(a, i + 1, j, Digits) /\ AllIn(b, i + 1, k, Digits)
    /\ i > 0 => a[i] \notin Digits
    /\ j < Len(a) => a[j + 1] \notin Digits

\* the positions at which routeA and routeB are run variants
RunVariants ==
    {v \in (0..Len(routeA)) \X (1..Len(routeA)) \X (1..Len(routeB)) :
        RunVariant(routeA, routeB, v[1], v[2], v[3])}

\* the order of two digit runs by their numbers
NumericOrder(ra, rb) == Sign(ParseInt(ra, 0) - ParseInt(rb, 0))

\* the first position at which two digit runs differ, when neither is a
\* prefix of the other
FirstDifference(ra, rb) ==
    Least({n \in 1..Min(Len(ra), Len(rb)) : ra[n] # rb[n]})

IsPrefixOf(ra, rb) == Len(ra) <= Len(rb) /\ SubSeq(rb, 1, Len(ra)) = ra

\* the order of the names p ra s and p rb s under locale collation: the
\* first differing digits decide; when one run is a prefix of the other,
\* the shorter name is first unless the suffix begins with a letter
CollationRunOrder(ra, rb, suffix) ==
    IF ra = rb THEN "equal"
    ELSE IF IsPrefixOf(ra, rb)
    THEN (IF suffix = <<>> \/ suffix[1] \notin Letters THEN "before" ELSE "after")
    ELSE IF IsPrefixOf(rb, ra)
    THEN (IF suffix = <<>> \/ suffix[1] \notin Letters THEN "after" ELSE "before")
    ELSE IF DigitValue(ra[FirstDifference(ra, rb)])
              < DigitValue(rb[FirstDifference(ra, rb)])
    THEN "before" ELSE "after"

\* C11 as claimed: two names of one kind that differ in one digit run are
\* ordered by the numbers of the runs under the natural setting, and by
\* plain lexicographic (code unit) comparison under the basic setting.
C11_PlainLexicographic ==
    (order # "none" /\ SyntacticKind(routeA) = SyntacticKind(routeB))
        => \A v \in RunVariants :
            LET ra == SubSeq(routeA, v[1] + 1, v[2])
                rb == SubSeq(routeB, v[1] + 1, v[3])
            IN order = IF sortingType = "natural" THEN NumericOrder(ra, rb)
                       ELSE Sign(CodeUnitCompare(routeA, routeB))

\* C11 amended: under the natural setting the numbers of the runs decide
\* (2 before 10, wherever the run stands); under the basic setting the
\* names are compared character by character in locale collation order,
\* so the run 10 precedes the run 2, and a run that is a prefix of the
\* other comes first unless a letter follows it.
C11_DigitRunOrder ==
    (order # "none" /\ SyntacticKind(routeA) = SyntacticKind(routeB))
        => \A v \in RunVariants :
            LET ra == SubSeq(routeA, v[1] + 1, v[2])
                rb == SubSeq(routeB, v[1] + 1, v[3])
            IN order = IF sortingType = "natural" THEN NumericOrder(ra, rb)
                       ELSE CollationRunOrder(ra, rb, Slice(routeA, v[2]))

\* C11 witness: the run 2 was put before the run 10 at the front of a name
\* under the natural setting
C11_Witness ==
    /\ sortingType = "natural"
    /\ routeA = <<"2", "a">>
    /\ routeB = <<"1", "0", "a">>
    /\ order = "before"

RECURSIVE Preorder(_)
Preorder(items) ==
    IF items = <<>> THEN <<>>
    ELSE <<items[1]>> \o Preorder(items[1].children) \o Preorder(Tail(items))

\* the node flattenRoutes emits for a node of the tree
Flattened(node) ==
    RouteItem(node.routePath, node.routePath, node.filePath, <<>>,
              node.routeType, FALSE, node.resetInfo, "page")

Occurrences(seq, x) == Cardinality({k \in 1..Len(seq) : seq[k] = x})

\* the emitted nodes that are neither divider nor spacer
RouteNodes(items) ==
    SelectSeq(items, LAMBDA n : n.routeType \notin {"divider", "spacer"})

\* C13: the route nodes of flattenRoutes(tree) are as many as the nodes of
\* the tree counted with all nested children, each node of the tree is
\* emitted as often as it occurs in the tree, and every emitted node has
\* no children.
C13_FlattenComplete ==
    flatList.built =>
        LET original == Preorder(routes.items)
            asEmitted == [k \in 1..Len(original) |-> Flattened(original[k])]
            emitted == RouteNodes(flatList.items)
        IN /\ Len(emitted) = Len(original)
           /\ \A k \in 1..Len(original) :
                Occurrences(emitted, asEmitted[k])
                    = Occurrences(asEmitted, asEmitted[k])
           /\ \A k \in 1..Len(flatList.items) :
                flatList.items[k].children = <<>>

\* C13 witness: a tree with nested children was flattened
C13_Witness ==
    /\ flatList.built
    /\ \E k \in 1..Len(routes.items) :
          \E c \in 1..Len(routes.items[k].children) :
             routes.items[k].children[c].children # <<>>
    /\ Len(RouteNodes(flatList.items)) >= 3

\* the group directories on the way to a file
AncestorGroups(filePath) ==
    {filePath[k] : k \in 1..(Len(filePath) - 1)} \cap {GroupG}

\* the node is built for a layout-reset page whose target (g) is no
\* ancestor group of its directory
MalformedReset(node) ==
    /\ node.filePath # <<>>
    /\ basename(node.filePath) = ResetG
    /\ AncestorGroups(node.filePath) = {}

\* C14 as claimed: the node built for a layout-reset page whose target
\* names no ancestor group is an ordinary page node with resetInfo null.
C14_MalformedResetIgnored ==
    routes.built =>
        \A k \in 1..Len(Preorder(routes.items)) :
            MalformedReset(Preorder(routes.items)[k])
                => /\ Preorder(routes.items)[k].resetInfo.isNull
                   /\ Preorder(routes.items)[k].fileType = "page"

\* the four classes of terminal files, most specific first, with the server
\* endpoint in either of its documented extensions
TerminalClass(k, f) ==
    CASE k = 1 -> IsResetWithTarget(f)
      [] k = 2 -> f = ResetRoot
      [] k = 3 -> f \in {ServerTs, ServerJs}
      [] k = 4 -> f = PageSvelte

\* the classes of which the routes directory holds a file
ClassesPresent ==
    {k \in 1..4 : \E n \in PageFileNames : <<n>> \in files /\ TerminalClass(k, n)}

\* C16 as claimed: findMostSpecificPage returns a file of the first class
\* present among (a) reset page with target, (b) root reset page, (c)
\* server endpoint (.ts or .js), (d) plain page, and null when the directory
\* holds none of them.
C16_MostSpecificPage ==
    pc = "found" =>
        IF ClassesPresent = {} THEN result = Null
        ELSE /\ result.tag = "file"
             /\ result.path \in files
             /\ TerminalClass(Least(ClassesPresent), result.path[1])

\* the resolution with no segment left as described: an optional child is
\* entered with zero segments and its result preferred, else the most
\* specific page of the directory itself
RECURSIVE ZeroSegmentsResolution(_)
ZeroSegmentsResolution(d) ==
    LET child == d \o <<OptionalP>>
        below == IF child \in dirs THEN ZeroSegmentsResolution(child) ELSE Null
    IN IF below # Null THEN below ELSE findMostSpecificPage(d)

\* the request's segments name the static directory chain D
RequestNames(D) ==
    /\ \A i \in 1..Len(D) : getRouteType(D[i]) = "static"
    /\ ReqSegs = D

\* C19 as claimed: a request whose static segments end at a directory
\* resolves to what the directory's optional child yields with zero
\* segments (nested optional directories included) and to the directory's
\* own most specific page only when no optional child yields a result, at
\* the routes directory as well as deeper.
C19_ZeroSegmentsLeft ==
    Returned =>
        \A D \in dirs :
            (RequestNames(D) /\ ZeroSegmentsResolution(D) # Null)
                => result = ZeroSegmentsResolution(D)

\* C20 as claimed: every request path that splits into the same list of
\* non-empty segments as the settled one resolves to the same result.
C20_PathNormalization ==
    Returned =>
        \A other \in Requests :
            SegmentsOf[other] = ReqSegs => findMatchingRoute(other) = result

(***************************************************************************)
(* Properties of the two passes (SpecScores).                              *)
(***************************************************************************)
\* the score table
ScoreTable(case) ==
    CASE case = "static" -> 100
      [] case = "matcher" -> 90
      [] case = "group" -> 95
      [] case = "dynamic" -> 80
      [] case = "optionalConsuming" -> 70
      [] case = "optionalSkipping" -> 60
      [] case = "rest" -> 50

\* the pass in which a case is tried
PassOf(case) == IF case \in {"static", "matcher"} THEN 1 ELSE 2

Yield(m, case) == [match |-> m, case |-> case]
NoYield == Yield(Null, "none")

\* what child e of d yields for the segments rem, and as which case
ChildYield(d, rem, e) ==
    LET fullPath == d \o <<e>>
        kind == getRouteType(e)
    IN CASE kind = "static" ->
              IF e = rem[1]
              THEN Yield(findMatchingSegments(fullPath, Tail(rem)), "static")
              ELSE NoYield
         [] kind = "matcher" ->
              IF isParameterMatchGeneric(rem[1], e) = "true"
              THEN Yield(findMatchingSegments(fullPath, Tail(rem)), "matcher")
              ELSE NoYield
         [] kind = "group" -> Yield(findMatchingSegments(fullPath, rem), "group")
         [] kind = "dynamic" ->
              Yield(findMatchingSegments(fullPath, Tail(rem)), "dynamic")
         [] kind = "optional" ->
              IF findMatchingSegments(fullPath, Tail(rem)).tag = "file"
              THEN Yield(findMatchingSegments(fullPath, Tail(rem)),
                         "optionalConsuming")
              ELSE Yield(findMatchingSegments(fullPath, rem), "optionalSkipping")
         [] kind = "rest" -> Yield(findMostSpecificPage(fullPath), "rest")
         [] OTHER -> NoYield

\* the child directories of d, of any modelled name
Children(d) == {n \in DirNames \cup ScoreDirNames : (d \o <<n>>) \in dirs}

\* what every child of d yields for rem
Yields(d, rem) ==
    {[entry |-> e, yield |-> ChildYield(d, rem, e)] : e \in Children(d)}

\* of the yields ys, the matches found in the given pass
Successful(ys, pass) ==
    {y \in ys : y.yield.match.tag = "file" /\ PassOf(y.yield.case) = pass}

\* of the yields S, the one of highest score
HighestScore(S) ==
    CHOOSE y \in S :
        \A o \in S : ScoreTable(y.yield.case) >= ScoreTable(o.yield.case)

HighestScoreAt(d, rem) ==
    LET ys == Yields(d, rem)
        first == Successful(ys, 1)
        deciding == IF first # {} THEN first ELSE Successful(ys, 2)
    IN (Children(d) # {} /\ deciding # {})
          => ResolvedAt(d, rem) = HighestScore(deciding).yield.match

\* C17: among the children of a directory that yield a match in the pass
\* that decides, the match of the child with the highest score is returned,
\* with static 100, matcher 90, group 95, dynamic 80, optional consuming 70,
\* optional not consuming 60, rest 50; a dynamic sibling's match is
\* returned in preference to a rest sibling's.
C17_ScoreTable ==
    Returned =>
        /\ \A rem \in ReqSuffixes : \A d \in dirs : HighestScoreAt(d, rem)
        /\ ( /\ Len(ReqSegs) = 1
             /\ <<DynamicP, PageSvelte>> \in files
             /\ <<RestP, PageSvelte>> \in files
             /\ Successful(Yields(<<>>, ReqSegs), 1) = {}
             /\ <<GroupG, DynamicP, PageSvelte>> \notin files )
           => result = File(<<DynamicP, PageSvelte>>)

\* C17 witness: the dynamic, the optional and the rest entry all yield a
\* match for the request and the dynamic entry's match was returned
C17_Witness ==
    /\ Returned
    /\ result = File(<<DynamicP, PageSvelte>>)
    /\ {DynamicP, OptionalP, RestP}
          \subseteq {y.entry : y \in Successful(Yields(<<>>, ReqSegs), 2)}

FirstPassPriorityAt(d, rem) ==
    LET ys == Yields(d, rem)
        first == Successful(ys, 1)
        secondKinds == {e \in Children(d) :
                          getRouteType(e) \in {"group", "dynamic", "optional", "rest"}}
    IN Children(d) # {} =>
         IF first # {}
         THEN /\ ResolvedAt(d, rem) \in {y.yield.match : y \in first}
              /\ SecondPassEvaluated(d, rem) = {}
         ELSE /\ SecondPassEvaluated(d, rem) = secondKinds
              /\ Successful(ys, 2) # {} => ResolvedAt(d, rem).tag = "file"

\* C18: with segments remaining, when a static or matcher child yields a
\* match the result comes from one of those children and the second loop
\* evaluates no entry; when none does (also when the static child named
\* like the segment has no terminal file below it), the second loop
\* evaluates every group, dynamic, optional and rest child.
C18_FirstPassPriority ==
    Returned =>
        \A rem \in ReqSuffixes : \A d \in dirs : FirstPassPriorityAt(d, rem)

\* C18 witness: the matcher entry's match was returned although the group
\* entry yields a match for the same request, while the static entry named
\* like the segment holds no terminal file
C18_Witness ==
    /\ Returned
    /\ request = <<"/", "1">>
    /\ <<Static1>> \in dirs
    /\ <<GroupG, DynamicP, PageSvelte>> \in files
    /\ result = File(<<MatcherInt, PageSvelte>>)

(***************************************************************************)
(* Properties of interleaved calls (SpecTasks).                            *)
(***************************************************************************)
\* C15: a findMatchingRoute call that ran interleaved with another one at
\* its await points, over an unchanged file system, settles with the
\* result it settles with when run alone, in every interleaving.
C15_IndependentCalls ==
    \A t \in TaskIds :
        tasks[t].status = "done"
            => tasks[t].result = findMatchingRoute(tasks[t].request)

\* C15 witness: the first call settled with a file while the second call,
\* for another path, is inside a nested invocation with a candidate kept
\* in its outer one
C15_Witness ==
    /\ tasks[1].status = "done"
    /\ tasks[1].result.tag = "file"
    /\ tasks[2].status = "running"
    /\ tasks[2].request # tasks[1].request
    /\ Len(tasks[2].stack) = 2
    /\ tasks[2].stack[1].best.match.tag = "file"

(***************************************************************************)
(* Properties of the resolver under a changing listing order (SpecOrder).  *)
(***************************************************************************)
\* C21: findMatchingRoute returns the same file whatever order readdir
\* lists the entries of each directory in: the result a call settled with
\* is the result of the same call on the same tree under the listing order
\* in force now, which may be the other one.
C21_OrderIndependent ==
    pc = "returned" => result = findMatchingRoute(request)

(***************************************************************************)
(* Properties of the flat list (SpecBuild).                                *)
(***************************************************************************)
\* the first segment of a route path as path.join wrote it on the platform
TopLevelOf(routePath) ==
    IF routePath = <<"/">> THEN routePath
    ELSE SplitAt(routePath, Sep, <<>>)[1]

\* the positions of the dividers and of the route nodes of a flat list
DividersOf(list) == {k \in 1..Len(list) : list[k].routeType = "divider"}
RoutesOf(list) ==
    {k \in 1..Len(list) : list[k].routeType \notin {"divider", "spacer"}}

\* the position of the last divider before position k (0: none)
DividerBefore(list, k) ==
    LET before == {d \in DividersOf(list) : d < k}
    IN IF before = {} THEN 0
       ELSE CHOOSE d \in before : \A o \in before : o <= d

\* C22: in the flat view two route nodes are under the same divider exactly
\* when their route paths have the same first segment; every route node
\* follows the divider labelled with its own first segment, there is one
\* divider per distinct first segment, and the dividers are in ascending
\* order of their labels.
C22_FlattenGrouping ==
    (flatList.built /\ flatView) =>
        LET list == flatList.items
        IN /\ \A k \in RoutesOf(list) :
                /\ DividerBefore(list, k) # 0
                /\ list[DividerBefore(list, k)].label
                      = TopLevelOf(list[k].routePath)
           /\ \A k, j \in RoutesOf(list) :
                (DividerBefore(list, k) = DividerBefore(list, j))
                    <=> (TopLevelOf(list[k].routePath)
                           = TopLevelOf(list[j].routePath))
           /\ {list[d].label : d \in DividersOf(list)}
                 = {TopLevelOf(list[k].routePath) : k \in RoutesOf(list)}
           /\ \A d, e \in DividersOf(list) :
                d < e => CodeUnitCompare(list[d].label, list[e].label) < 0

\* the first two segments of a route path as path.join wrote it
SubPathOf(routePath) == SubDirOf(SplitAt(routePath, Sep, <<>>))

\* C23: in the flat list a spacer is never the first node after a divider;
\* a spacer stands between two route nodes of one divider group whose
\* second-level sub-paths differ.
C23_SpacerPlacement ==
    (flatList.built /\ flatView) =>
        LET list == flatList.items
        IN \A k \in 1..Len(list) :
              list[k].routeType = "spacer"
                 => /\ k > 1 /\ k < Len(list)
                    /\ k - 1 \in RoutesOf(list)
                    /\ k + 1 \in RoutesOf(list)
                    /\ SubPathOf(list[k - 1].routePath)
                          # SubPathOf(list[k + 1].routePath)

(***************************************************************************)
(* Properties of the built tree (SpecBuild).                               *)
(***************************************************************************)
\* findPageInfo keeps the file
IsRouteFile(file) ==
    /\ StartsWith(file, <<"+">>)
    /\ IncludesString(file, PagePrefix) \/ FileTypeOf(file) # ""

\* the directory holds a route file, directly or in a descendant
RouteBearing(d) ==
    \E f \in files :
        /\ Len(f) > Len(d)
        /\ SubSeq(f, 1, Len(d)) = d
        /\ IsRouteFile(basename(f))

\* the route path buildRoutesTree joins for a directory
RECURSIVE RoutePathOfDir(_)
RoutePathOfDir(d) ==
    IF d = <<>> THEN <<>>
    ELSE JoinRoutePath(RoutePathOfDir(SubSeq(d, 1, Len(d) - 1)), d[Len(d)])

\* C24: in both view modes every node of the built tree, at any depth,
\* has a file path or at least one child, and a directory that holds no
\* route file, directly or in a descendant, has no node (group
\* directories included).
C24_NoEmptyNodes ==
    routes.built =>
        LET nodes == Preorder(routes.items)
        IN /\ \A k \in 1..Len(nodes) :
                nodes[k].filePath # <<>> \/ nodes[k].children # <<>>
           /\ \A d \in dirs \ {<<>>} :
                ~RouteBearing(d)
                    => \A k \in 1..Len(nodes) :
                          nodes[k].routePath # RoutePathOfDir(d)

\* C24 witness: the hierarchical tree was built for a routes directory
\* with an empty group directory and a directory whose only route file is
\* in a child, which got a node without a file path
C24_Witness ==
    /\ routes.built
    /\ ~flatView
    /\ <<GroupG>> \in dirs
    /\ ~RouteBearing(<<GroupG>>)
    /\ \E k \in 1..Len(routes.items) :
          /\ routes.items[k].filePath = <<>>
          /\ routes.items[k].children # <<>>

\* the directories on the way to a file, outermost first
DirSegments(filePath) == SubSeq(filePath, 1, Len(filePath) - 1)

\* the positions of the target group among the directories of a file
TargetPositions(filePath, target) ==
    {i \in 1..Len(DirSegments(filePath)) :
        \/ DirSegments(filePath)[i] = target
        \/ DirSegments(filePath)[i] = <<"(">> \o target \o <<")">>}

\* C25 as claimed: the layoutLevel of a layout-reset page node is the
\* number of directories between its file and the target group it names,
\* and the full depth of its directory when the target is the root.
C25_ResetLevel ==
    routes.built =>
        \A k \in 1..Len(Preorder(routes.items)) :
            LET node == Preorder(routes.items)[k]
                target == node.resetInfo.resetTarget
                depth == Len(DirSegments(node.filePath))
            IN (~node.resetInfo.isNull /\ node.filePath # <<>>)
                  => IF target = Root
                     THEN node.resetInfo.layoutLevel = depth
                     ELSE TargetPositions(node.filePath, target) # {}
                            => \E i \in TargetPositions(node.filePath, target) :
                                  node.resetInfo.layoutLevel = depth - i

(***************************************************************************)
(* Properties of the debounced refresh (SpecDebounce, SpecSearch).         *)
(***************************************************************************)
\* the editor changes that no other editor change follows within the delay
BurstEnds ==
    {t \in editorEvents :
        ~\E e \in editorEvents : t < e /\ e < t + Delay}

\* the times at which a timer called refresh()
TimerRefreshes == {r.at : r \in {q \in refreshes : q.cause = "editor"}}

\* C26: at most one refresh timer is pending at any time, and the timer
\* refreshes are exactly one per burst of editor changes (changes less
\* than the delay apart), each at the delay after the last change of its
\* burst.
C26_DebouncedRefresh ==
    /\ Cardinality(timers) <= 1
    /\ TimerRefreshes \subseteq {t + Delay : t \in BurstEnds}
    /\ \A t \in BurstEnds :
          t + Delay <= now
             => \/ t + Delay \in TimerRefreshes
                \/ t + Delay = now /\ timers = {now}

\* C26 witness: two bursts were seen, the first of two changes, each
\* followed by its refresh
C26_Witness ==
    /\ {0, TickMs} \subseteq editorEvents
    /\ Cardinality(editorEvents) >= 3
    /\ Cardinality(TimerRefreshes) = 2
    /\ timers = {}

\* C27: with the listener that returns early in search mode, no refresh
\* called by the timer of an editor change happens while a search pattern
\* is set.
C27_NoEditorRefreshInSearch ==
    \A r \in refreshes : r.cause = "editor" => r.searchPattern = <<>>

(***************************************************************************)
(* Properties of the resolver with group directories (SpecGroups).         *)
(***************************************************************************)
\* the pages of the directories named n, directly in the routes directory
\* or inside its group directory
PagesOf(n) ==
    {f \in files : f = <<n, PageSvelte>> \/ f = <<GroupG, n, PageSvelte>>}

\* C28: when a request of one segment is matched by a static route and by
\* a dynamic route, the static route's page is returned, and when it is
\* matched by a dynamic and a rest route (and no static one), the dynamic
\* route's page is returned, whether or not either route is inside the
\* group directory.
C28_PrecedenceThroughGroups ==
    (Returned /\ Len(ReqSegs) = 1) =>
        LET statics == IF ReqSegs[1] = StaticA THEN PagesOf(StaticA) ELSE {}
            dynamics == PagesOf(DynamicP)
            rests == PagesOf(RestP)
        IN /\ (statics # {} /\ dynamics # {})
                => result \in {File(f) : f \in statics}
           /\ (statics = {} /\ dynamics # {} /\ rests # {})
                => result \in {File(f) : f \in dynamics}

(***************************************************************************)
(* Soundness of the resolver (SpecScores).                                 *)
(***************************************************************************)
\* a page, a layout-reset page or a server endpoint
IsTerminalFile(f) ==
    \/ f \in {PageSvelte, ResetRoot, ServerJs, ServerTs}
    \/ IsResetWithTarget(f)

\* the directories of a chain take the segments in order: a static one the
\* segment equal to it, a matcher one a segment its predicate accepts, a
\* dynamic one any one segment, an optional one a segment or none, a group
\* none, a rest one all that remain (one at least); none is left over
RECURSIVE Aligns(_, _)
Aligns(chain, segs) ==
    IF chain = <<>> THEN segs = <<>>
    ELSE LET n == Head(chain)
             kind == getRouteType(n)
         IN CASE kind = "static" ->
                    /\ segs # <<>>
                    /\ segs[1] = n
                    /\ Aligns(Tail(chain), Tail(segs))
              [] kind = "matcher" ->
                    /\ segs # <<>>
                    /\ isParameterMatchGeneric(segs[1], n) = "true"
                    /\ Aligns(Tail(chain), Tail(segs))
              [] kind = "dynamic" ->
                    /\ segs # <<>>
                    /\ Aligns(Tail(chain), Tail(segs))
              [] kind = "optional" ->
                    \/ Aligns(Tail(chain), segs)
                    \/ segs # <<>> /\ Aligns(Tail(chain), Tail(segs))
              [] kind = "group" -> Aligns(Tail(chain), segs)
              [] kind = "rest" -> segs # <<>> /\ Aligns(Tail(chain), <<>>)
              [] OTHER -> FALSE

\* C29: a file findMatchingRoute returns is an existing terminal file, and
\* the directories from the routes directory down to it take the segments
\* of the request in order, with none left over.
C29_ResolutionSound ==
    (Returned /\ result.tag = "file") =>
        /\ result.path \in files
        /\ IsTerminalFile(basename(result.path))
        /\ Aligns(ChainOf(result.path), ReqSegs)

\* C29 witness: a request of two segments settled with a page two
\* directories down while a static directory named like another segment
\* value held a page as well
C29_Witness ==
    /\ Returned
    /\ Len(ReqSegs) = 2
    /\ ReqSegs[1] = SegA
    /\ result.tag = "file"
    /\ Len(result.path) = 3
    /\ \E f \in files : f[1] = Static1

(***************************************************************************)
(* Termination (SpecCall).                                                 *)
(***************************************************************************)
\* in the stack of a call every nested invocation is on an entry of the
\* directory of the invocation awaiting it, so no two invocations of a
\* stack are on the same directory
Descends ==
    \A t \in TaskIds :
        \A k \in 1..(Len(tasks[t].stack) - 1) :
            /\ Len(tasks[t].stack[k + 1].currentDir)
                  = Len(tasks[t].stack[k].currentDir) + 1
            /\ SubSeq(tasks[t].stack[k + 1].currentDir, 1,
                      Len(tasks[t].stack[k].currentDir))
                  = tasks[t].stack[k].currentDir

\* a node built by a nested buildRoutesTree call is for a directory below
\* the directory of the node it is a child of
BuildDescends ==
    routes.built =>
        \A k \in 1..Len(Preorder(routes.items)) :
            LET node == Preorder(routes.items)[k]
            IN \A c \in 1..Len(node.children) :
                  \/ node.children[c].children = <<>>
                  \/ Len(node.children[c].routePath) > Len(node.routePath)

\* C30: the findMatchingRoute call settles, and all along every nested
\* invocation of the resolver is one directory level below the invocation
\* awaiting it (the group pass-through and the optional retry included)
\* and every nested build is on a directory below its parent's; the build
\* and the flattening run to their end in one step.
C30_Termination ==
    /\ []Descends
    /\ []BuildDescends
    /\ [](flatList.built => routes.built)
    /\ <>(tasks[1].status = "done")

\* C30 witness: the call settled with the page it reached through the
\* group directory without consuming a segment there, and the flat list
\* was built
C30_Witness ==
    /\ tasks[1].status = "done"
    /\ tasks[1].result = File(<<GroupG, DynamicP, PageSvelte>>)
    /\ flatList.built

====
